---- MODULE Spec2Model ----
(***************************************************************************)
(* State-machine model of halkutkar/android-tools.                         *)
(*                                                                         *)
(* Part 1: the carousel extractor of DoorDashAPIGUI                        *)
(* (src/doordash_api_gui.py, extract_carousel_titles and its helpers).     *)
(*                                                                         *)
(* A JSON document is a tree of tagged values [type, v]:                   *)
(*   "str"      v = the sequence of its characters                         *)
(*   "int"      v = the number                                             *)
(*   "bool"     v = TRUE / FALSE                                           *)
(*   "NoneType" v = 0 (unused)                                             *)
(*   "list"     v = the sequence of its items                              *)
(*   "dict"     v = the sequence of its entries [key, value], in insertion *)
(*                  order (the order dict.values() / dict.items() yield)   *)
(* The call of a Python function yields an outcome [exc, val]: exc is TRUE *)
(* when an exception leaves the function, and val is what it returned (or, *)
(* for the functions that fill a list in place, the list as it stands when *)
(* the exception leaves).                                                  *)
(***************************************************************************)
EXTENDS Integers, Sequences, FiniteSets, TLC

VARIABLES
    response_data,   \* the document handed to extract_carousel_titles
    carousels,       \* the list the last call of extract_carousel_titles returned
    raised,          \* whether an exception left the last call
    previous,        \* the list the call before the last returned
    calls,           \* how many calls of extract_carousel_titles have returned
    inspected,       \* outcome of is_store_carousel(response_data) in a 1-tuple, or <<>>
    is_loading,      \* self.is_loading
    btn_state,       \* state of self.make_request_btn: "normal" or "disabled"
    config_token,    \* self.config['AUTHORIZATION_TOKEN']
    token_var,       \* self.config_vars['AUTHORIZATION_TOKEN'].get()
    workers,         \* the threads started on make_request, in order of start
    auth_errors,     \* "Authorization Error" boxes shown by make_request_threaded
    content,         \* the text handed to extract_fields_from_text
    extracted,       \* outcome of extract_fields_from_text(content) in a 1-tuple, or <<>>
    response,        \* the requests.Response handed to process_response
    response_display,     \* what self.response_display holds, insert by insert
    summary_display,      \* what self.summary_display holds
    raw_display,          \* what self.raw_display holds
    experiments_display,  \* what self.experiments_display holds
    status_var,           \* the messages given to update_status, in order
    notebook_tab,         \* the tab self.response_notebook shows
    config,          \* self.config, a dict of str and None
    config_vars,     \* self.config_vars: for each key what its entry holds
    config_file,     \* config.env: None when there is no such file, else its text
    loads,           \* how many times reload_config has run
    edits,           \* how many times the user has changed an entry
    setup_pc,        \* where run_setup stands
    avd_name,        \* self.avd_name of AndroidEmulatorSetup
    avds,            \* the AVDs installed on the machine, as the listing names them
    setup_log,       \* the methods run_setup has called, with what each returned
    wait,            \* the locals of wait_for_device and what it has seen
    proxy,           \* the commands configure_proxy ran, with how each ended
    setup_result     \* what run_setup returned, in a 1-tuple, or <<>>

extractor_vars == <<response_data, carousels, raised, previous, calls, inspected>>

request_vars == <<is_loading, btn_state, config_token, token_var, workers,
                  auth_errors>>

fields_vars == <<content, extracted>>

response_vars == <<response, response_display, summary_display, raw_display,
                   experiments_display, status_var, notebook_tab>>

configuration_vars == <<config, config_vars, config_file, loads, edits>>

setup_vars == <<setup_pc, avd_name, avds, setup_log, wait, proxy, setup_result>>

vars == <<extractor_vars, request_vars, fields_vars, response_vars, configuration_vars, setup_vars>>

----------------------------------------------------------------------------
(* Python values *)

PyStr(s) == [type |-> "str", v |-> s]

PyInt(n) == [type |-> "int", v |-> n]

PyBool(b) == [type |-> "bool", v |-> b]

PyNone == [type |-> "NoneType", v |-> 0]

PyList(xs) == [type |-> "list", v |-> xs]

PyDict(es) == [type |-> "dict", v |-> es]

Entry(k, x) == [key |-> k, value |-> x]

Return(x) == [exc |-> FALSE, val |-> x]

Raise(x) == [exc |-> TRUE, val |-> x]

\* bool(x): the truth value `if x:` tests.
Truthy(x) ==
    CASE x.type = "NoneType" -> FALSE
      [] x.type = "bool" -> x.v
      [] x.type = "int" -> x.v # 0
      [] OTHER -> Len(x.v) > 0

\* a == b for the values of a JSON document (no bool/int pair is compared here).
PyEq(a, b) == a.type = b.type /\ a.v = b.v

\* What stands for "the key is not there": the default of a .get() that no
\* value equals, and the missing part of a node that is put together.
Absent == [type |-> "absent", v |-> 0]

\* d.get(k, default) for a dict d.
DictGet(d, k, default) ==
    IF \E i \in 1..Len(d.v) : d.v[i].key = k
    THEN d.v[CHOOSE i \in 1..Len(d.v) : d.v[i].key = k].value
    ELSE default

\* d[k] = x for a dict d: an existing key keeps its place, a new one goes last.
DictSet(d, k, x) ==
    IF \E i \in 1..Len(d.v) : d.v[i].key = k
    THEN PyDict([i \in 1..Len(d.v) |->
                    IF d.v[i].key = k THEN Entry(k, x) ELSE d.v[i]])
    ELSE PyDict(Append(d.v, Entry(k, x)))

\* The characters str.strip() removes (the ASCII ones a TLA+ string can hold).
Whitespace == {" ", "\t", "\n", "\r", "\f"}

RECURSIVE LStrip(_)
LStrip(s) ==
    IF s # <<>> /\ Head(s) \in Whitespace THEN LStrip(Tail(s)) ELSE s

RECURSIVE RStrip(_)
RStrip(s) ==
    IF s # <<>> /\ s[Len(s)] \in Whitespace
    THEN RStrip(SubSeq(s, 1, Len(s) - 1))
    ELSE s

\* str.strip()
Strip(s) == RStrip(LStrip(s))

\* s.startswith(prefix)
StartsWith(s, prefix) ==
    /\ Len(s) >= Len(prefix)
    /\ \A i \in 1..Len(prefix) : s[i] = prefix[i]

----------------------------------------------------------------------------
(* The literals of is_store_carousel *)

StoreCarouselPrefix ==
    <<"c","a","r","o","u","s","e","l",".","s","t","a","n","d","a","r","d",":",
      "s","t","o","r","e","_","c","a","r","o","u","s","e","l">>

CarouselStandard ==
    <<"c","a","r","o","u","s","e","l",".","s","t","a","n","d","a","r","d">>

CarouselCategory == <<"c","a","r","o","u","s","e","l">>

----------------------------------------------------------------------------
(* is_store_carousel *)

\* is_store_carousel_try with the test of component 'category' left out.
is_store_carousel_try_any_category(item) ==
    IF item.type # "dict" THEN Raise(FALSE)
    ELSE LET item_id == DictGet(item, "id", PyStr(<<>>))
             component == DictGet(item, "component", PyDict(<<>>))
         IN  IF item_id.type # "str" THEN Raise(FALSE)
             ELSE IF ~StartsWith(item_id.v, StoreCarouselPrefix) THEN Return(FALSE)
             ELSE IF component.type # "dict" THEN Raise(FALSE)
             ELSE Return(
                    PyEq(DictGet(component, "id", PyNone), PyStr(CarouselStandard)))

\* The body of the try block: item.get and component.get need a dict,
\* item_id.startswith needs a str; `and` stops at its first false operand.
is_store_carousel_try(item) ==
    IF item.type # "dict" THEN Raise(FALSE)
    ELSE LET item_id == DictGet(item, "id", PyStr(<<>>))
             component == DictGet(item, "component", PyDict(<<>>))
         IN  IF item_id.type # "str" THEN Raise(FALSE)
             ELSE IF ~StartsWith(item_id.v, StoreCarouselPrefix) THEN Return(FALSE)
             ELSE IF component.type # "dict" THEN Raise(FALSE)
             ELSE Return(
                    PyEq(DictGet(component, "id", PyNone), PyStr(CarouselStandard))
                    /\ PyEq(DictGet(component, "category", PyNone),
                            PyStr(CarouselCategory)))

\* is_store_carousel without its try/except: the exception leaves it.
is_store_carousel_uncaught(item) == is_store_carousel_try(item)

\* try: ... except: return False
is_store_carousel(item) ==
    LET r == is_store_carousel_try(item)
    IN  IF r.exc THEN Return(FALSE) ELSE r

----------------------------------------------------------------------------
(* extract_store_carousel_info *)

\* CollectTextFields storing value instead of value.strip().
RECURSIVE CollectTextFields_untrimmed(_, _)
CollectTextFields_untrimmed(entries, text_fields) ==
    IF entries = <<>> THEN text_fields
    ELSE LET e == Head(entries)
             kept == IF e.value.type = "str" /\ Len(Strip(e.value.v)) > 0
                     THEN DictSet(text_fields, e.key, e.value)
                     ELSE text_fields
         IN  CollectTextFields_untrimmed(Tail(entries), kept)

\* The loop over text_obj.items(): text_fields[key] = value.strip() for every
\* str value whose strip() is non-empty.
RECURSIVE CollectTextFields(_, _)
CollectTextFields(entries, text_fields) ==
    IF entries = <<>> THEN text_fields
    ELSE LET e == Head(entries)
             kept == IF e.value.type = "str" /\ Len(Strip(e.value.v)) > 0
                     THEN DictSet(text_fields, e.key, PyStr(Strip(e.value.v)))
                     ELSE text_fields
         IN  CollectTextFields(Tail(entries), kept)

\* extract_store_carousel_info_try without `if carousel_info['text_fields']:`.
extract_store_carousel_info_try_keep_empty(item) ==
    IF item.type # "dict" THEN Raise(PyNone)
    ELSE LET component == DictGet(item, "component", PyDict(<<>>))
         IN  IF component.type # "dict" THEN Raise(PyNone)
             ELSE LET text_obj == DictGet(item, "text", PyDict(<<>>))
                      text_fields == IF text_obj.type = "dict"
                                     THEN CollectTextFields(text_obj.v, PyDict(<<>>))
                                     ELSE PyDict(<<>>)
                  IN  Return(PyDict(<<
                          Entry("id", DictGet(item, "id", PyStr(<<>>))),
                          Entry("component_id",
                                DictGet(component, "id", PyStr(<<>>))),
                          Entry("component_category",
                                DictGet(component, "category", PyStr(<<>>))),
                          Entry("text_fields", text_fields) >>))

\* extract_store_carousel_info_try with 'component_id' read from item in place
\* of component.
extract_store_carousel_info_try_item_id(item) ==
    IF item.type # "dict" THEN Raise(PyNone)
    ELSE LET component == DictGet(item, "component", PyDict(<<>>))
         IN  IF component.type # "dict" THEN Raise(PyNone)
             ELSE LET text_obj == DictGet(item, "text", PyDict(<<>>))
                      text_fields == IF text_obj.type = "dict"
                                     THEN CollectTextFields(text_obj.v, PyDict(<<>>))
                                     ELSE PyDict(<<>>)
                      carousel_info == PyDict(<<
                          Entry("id", DictGet(item, "id", PyStr(<<>>))),
                          Entry("component_id",
                                DictGet(item, "id", PyStr(<<>>))),
                          Entry("component_category",
                                DictGet(component, "category", PyStr(<<>>))),
                          Entry("text_fields", text_fields) >>)
                  IN  IF Truthy(text_fields) THEN Return(carousel_info)
                      ELSE Return(PyNone)

\* The body of the try block; falling out of it returns None.
extract_store_carousel_info_try(item) ==
    IF item.type # "dict" THEN Raise(PyNone)
    ELSE LET component == DictGet(item, "component", PyDict(<<>>))
         IN  IF component.type # "dict" THEN Raise(PyNone)
             ELSE LET text_obj == DictGet(item, "text", PyDict(<<>>))
                      text_fields == IF text_obj.type = "dict"
                                     THEN CollectTextFields(text_obj.v, PyDict(<<>>))
                                     ELSE PyDict(<<>>)
                      carousel_info == PyDict(<<
                          Entry("id", DictGet(item, "id", PyStr(<<>>))),
                          Entry("component_id",
                                DictGet(component, "id", PyStr(<<>>))),
                          Entry("component_category",
                                DictGet(component, "category", PyStr(<<>>))),
                          Entry("text_fields", text_fields) >>)
                  IN  IF Truthy(text_fields) THEN Return(carousel_info)
                      ELSE Return(PyNone)

\* try: ... except Exception: print(...); return None
extract_store_carousel_info(item) ==
    LET r == extract_store_carousel_info_try(item)
    IN  IF r.exc THEN Return(PyNone) ELSE r

----------------------------------------------------------------------------
(* find_store_carousels_recursive *)

\* The values a dict is iterated over: obj.values().
DictValues(obj) == [i \in 1..Len(obj.v) |-> obj.v[i].value]

RECURSIVE find_store_carousels_recursive(_, _)
RECURSIVE VisitEach(_, _)

\* for x in xs: self.find_store_carousels_recursive(x, carousels)
\* An exception leaving one call ends the loop and leaves it too.
VisitEach(xs, list) ==
    IF xs = <<>> THEN Return(list)
    ELSE LET r == find_store_carousels_recursive(Head(xs), list)
         IN  IF r.exc THEN r ELSE VisitEach(Tail(xs), r.val)

\* CheckAndAppend that leaves out a record equal to one already in the list.
CheckAndAppend_dedup(obj, list) ==
    LET m == is_store_carousel(obj)
    IN  IF m.exc THEN Raise(list)
        ELSE IF ~m.val THEN Return(list)
        ELSE LET carousel_info == extract_store_carousel_info(obj)
             IN  IF carousel_info.exc THEN Raise(list)
                 ELSE IF Truthy(carousel_info.val)
                         /\ \A i \in 1..Len(list) : list[i] # carousel_info.val
                      THEN Return(Append(list, carousel_info.val))
                      ELSE Return(list)

\* The `if self.is_store_carousel(obj):` block of the dict branch: the list
\* after it, or the exception that left it.
CheckAndAppend(obj, list) ==
    LET m == is_store_carousel(obj)
    IN  IF m.exc THEN Raise(list)
        ELSE IF ~m.val THEN Return(list)
        ELSE LET carousel_info == extract_store_carousel_info(obj)
             IN  IF carousel_info.exc THEN Raise(list)
                 ELSE IF Truthy(carousel_info.val)
                      THEN Return(Append(list, carousel_info.val))
                      ELSE Return(list)

\* find_store_carousels_recursive that appends a node's record after the
\* descent into its values.
find_store_carousels_recursive_postorder(obj, list) ==
    IF obj.type = "dict"
    THEN LET r == VisitEach(DictValues(obj), list)
         IN  IF r.exc THEN r ELSE CheckAndAppend(obj, r.val)
    ELSE IF obj.type = "list"
    THEN VisitEach(obj.v, list)
    ELSE Return(list)

\* find_store_carousels_recursive that descends into a mapping only when it
\* did not match (the loop over obj.values() under an else).
find_store_carousels_recursive_else(obj, list) ==
    IF obj.type = "dict"
    THEN IF is_store_carousel(obj).val
         THEN CheckAndAppend(obj, list)
         ELSE VisitEach(DictValues(obj), list)
    ELSE IF obj.type = "list"
    THEN VisitEach(obj.v, list)
    ELSE Return(list)

\* find_store_carousels_recursive without its isinstance tests: whatever is
\* not a list is iterated with obj.values(), which a str or a number lacks.
find_store_carousels_recursive_unguarded(obj, list) ==
    IF obj.type = "list"
    THEN VisitEach(obj.v, list)
    ELSE IF obj.type = "dict"
    THEN LET r == CheckAndAppend(obj, list)
         IN  IF r.exc THEN r ELSE VisitEach(DictValues(obj), r.val)
    ELSE Raise(list)

find_store_carousels_recursive(obj, list) ==
    IF obj.type = "dict"
    THEN LET r == CheckAndAppend(obj, list)
         IN  IF r.exc THEN r ELSE VisitEach(DictValues(obj), r.val)
    ELSE IF obj.type = "list"
    THEN VisitEach(obj.v, list)
    ELSE Return(list)

----------------------------------------------------------------------------
(* extract_carousel_titles *)

\* extract_carousel_titles with `if len(response_data):` ahead of the try.
extract_carousel_titles_len_guard(data) ==
    IF data.type \in {"NoneType", "int", "bool"} THEN Raise(<<>>)
    ELSE IF Len(data.v) > 0
    THEN Return(find_store_carousels_recursive(data, <<>>).val)
    ELSE Return(<<>>)

\* extract_carousel_titles filling one list kept across calls (a mutable
\* default argument) in place of a fresh `carousels = []`.
extract_carousel_titles_shared_list(data) ==
    IF Truthy(data)
    THEN Return(find_store_carousels_recursive(data, carousels).val)
    ELSE Return(carousels)

\* carousels = []; try: if response_data: find(...); except Exception: print;
\* return carousels -- the list as it stands, also after an exception.
extract_carousel_titles(data) ==
    IF Truthy(data)
    THEN Return(find_store_carousels_recursive(data, <<>>).val)
    ELSE Return(<<>>)

----------------------------------------------------------------------------
(* What the traversal stores, and where *)

\* TextStores whose stores go back into item['text'] (the trimmed value
\* written over the one it was read from).
RECURSIVE TextStores_into_item(_)
TextStores_into_item(entries) ==
    IF entries = <<>> THEN <<>>
    ELSE LET e == Head(entries)
         IN  (IF e.value.type = "str" /\ Len(Strip(e.value.v)) > 0
              THEN <<[target |-> "item_text", key |-> e.key,
                      value |-> PyStr(Strip(e.value.v))]>>
              ELSE <<>>) \o TextStores_into_item(Tail(entries))

\* The stores of the loop over text_obj.items(), in order. Each is
\* carousel_info['text_fields'][key] = value.strip(): its target is the dict
\* created with carousel_info, and str.strip() builds a new string.
RECURSIVE TextStores(_)
TextStores(entries) ==
    IF entries = <<>> THEN <<>>
    ELSE LET e == Head(entries)
         IN  (IF e.value.type = "str" /\ Len(Strip(e.value.v)) > 0
              THEN <<[target |-> "carousel_info", key |-> e.key,
                      value |-> PyStr(Strip(e.value.v))]>>
              ELSE <<>>) \o TextStores(Tail(entries))

\* text_obj once the stores aimed at it have been carried out.
RECURSIVE ApplyStores(_, _)
ApplyStores(text_obj, stores) ==
    IF stores = <<>> THEN text_obj
    ELSE LET s == Head(stores)
         IN  ApplyStores(IF s.target = "item_text"
                         THEN DictSet(text_obj, s.key, s.value)
                         ELSE text_obj,
                         Tail(stores))

\* item as extract_store_carousel_info leaves it. The loop is reached when
\* item and its component are mappings and item['text'] is one.
item_after_extract(item) ==
    IF item.type # "dict" THEN item
    ELSE IF DictGet(item, "component", PyDict(<<>>)).type # "dict" THEN item
    ELSE LET text_obj == DictGet(item, "text", Absent)
         IN  IF text_obj.type # "dict" THEN item
             ELSE DictSet(item, "text",
                          ApplyStores(text_obj, TextStores(text_obj.v)))

\* obj as find_store_carousels_recursive leaves it: is_store_carousel and the
\* loops over obj.values() and obj only read; a matching mapping goes through
\* extract_store_carousel_info; every value and item is descended into.
RECURSIVE object_after_find(_)
object_after_find(obj) ==
    IF obj.type = "dict"
    THEN LET checked == IF is_store_carousel(obj).val
                        THEN item_after_extract(obj) ELSE obj
         IN  PyDict([i \in 1..Len(checked.v) |->
                        Entry(checked.v[i].key,
                              object_after_find(checked.v[i].value))])
    ELSE IF obj.type = "list"
    THEN PyList([i \in 1..Len(obj.v) |-> object_after_find(obj.v[i])])
    ELSE obj

\* response_data as extract_carousel_titles leaves it.
response_data_after(data) ==
    IF Truthy(data) THEN object_after_find(data) ELSE data

----------------------------------------------------------------------------
(* The documents the extractor is applied to *)

\* Largest number of constructors (atoms and containers) of a generated tree.
MaxSize == 4

\* Largest number of calls of extract_carousel_titles in one behaviour.
MaxCalls == 2

Chars(id) == PyStr(StoreCarouselPrefix \o id)

Opt(k, x) == IF x = Absent THEN <<>> ELSE <<Entry(k, x)>>

Node(idv, compv, textv) ==
    PyDict(Opt("id", idv) \o Opt("component", compv) \o Opt("text", textv))

GoodComponent ==
    PyDict(<<Entry("id", PyStr(CarouselStandard)),
             Entry("category", PyStr(CarouselCategory))>>)

IdVals ==
    { Absent,
      Chars(<<"_","4","2">>),
      Chars(<<>>),
      PyStr(CarouselStandard),
      PyStr(<<"x">> \o StoreCarouselPrefix),
      PyInt(7),
      PyNone }

ComponentVals ==
    { Absent,
      GoodComponent,
      PyDict(<<Entry("id", PyStr(CarouselStandard)),
               Entry("category", PyStr(<<"b","a","n","n","e","r">>))>>),
      PyDict(<<Entry("id", PyStr(CarouselStandard))>>),
      PyDict(<<Entry("category", PyStr(CarouselCategory))>>),
      PyStr(<<"n","o","t","-","a","-","m","a","p","p","i","n","g">>),
      PyNone }

TextVals ==
    { Absent,
      PyDict(<<>>),
      PyDict(<<Entry("title", PyStr(<<" "," ","P","o","p","u","l","a","r"," ",
                                      "n","e","a","r"," ","y","o","u"," "," ">>)),
               Entry("subtitle", PyStr(<<>>))>>),
      PyDict(<<Entry("title", PyStr(<<" ","\t">>))>>),
      PyDict(<<Entry("title", PyInt(5)), Entry("subtitle", PyNone)>>),
      PyDict(<<Entry("title", PyStr(<<"X">>)),
               Entry("subtitle", PyStr(<<"\t","a"," ","b","\n">>)),
               Entry("count", PyInt(3))>>),
      PyStr(<<"X">>),
      PyList(<<PyStr(<<"X">>)>>) }

\* Every combination of id, component and text of one candidate node.
RichNodes ==
    { Node(i, c, t) : i \in IdVals, c \in ComponentVals, t \in TextVals }

RootPrimitives ==
    { PyNone, PyStr(<<>>), PyStr(<<"X">>), PyInt(0), PyInt(5),
      PyBool(TRUE), PyBool(FALSE), PyList(<<>>), PyDict(<<>>) }

GoodX == Node(Chars(<<"_","1">>), GoodComponent,
              PyDict(<<Entry("title", PyStr(<<"X">>))>>))

GoodY == Node(Chars(<<"_","2">>), GoodComponent,
              PyDict(<<Entry("title", PyStr(<<"Y">>))>>))

BadComponent ==
    Node(Chars(<<"_","3">>), PyStr(<<"n","o","t","-","a","-","m","a","p","p","i","n","g">>),
         PyDict(<<Entry("title", PyStr(<<"X">>))>>))

Atoms == { GoodX, GoodY, BadComponent }

ChildKeys == <<"a", "b", "c", "d", "e", "f">>

ChildEntries(cs) == [i \in 1..Len(cs) |-> Entry(ChildKeys[i], cs[i])]

ContainerKinds == { "list", "plain", "in_good", "in_bad", "in_text" }

\* A container of kind k around the children cs: a list, a plain mapping, a
\* matching node with the children under keys ahead of its own, a malformed
\* node with the children under keys after its own, or a matching node with
\* the children inside its text mapping.
Container(k, cs) ==
    CASE k = "list" -> PyList(cs)
      [] k = "plain" -> PyDict(ChildEntries(cs))
      [] k = "in_good" -> PyDict(ChildEntries(cs) \o GoodX.v)
      [] k = "in_bad" -> PyDict(BadComponent.v \o ChildEntries(cs))
      [] k = "in_text" ->
            Node(Chars(<<"_","1">>), GoodComponent,
                 PyDict(<<Entry("title", PyStr(<<"X">>))>> \o ChildEntries(cs)))

RECURSIVE DocsOfSize(_)
RECURSIVE SeqsOfSize(_)

\* The trees built from exactly n constructors.
DocsOfSize(n) ==
    IF n = 1 THEN Atoms
    ELSE { Container(k, cs) : k \in ContainerKinds, cs \in SeqsOfSize(n - 1) }

\* The sequences of trees built from exactly m constructors in all.
SeqsOfSize(m) ==
    IF m = 0 THEN { <<>> }
    ELSE UNION { { <<d>> \o rest : d \in DocsOfSize(j), rest \in SeqsOfSize(m - j) }
                 : j \in 1..m }

\* The mappings is_store_carousel is applied to on its own.
CandidateNodes == RichNodes \cup Atoms \cup { PyDict(<<>>) }

Documents ==
    RootPrimitives \cup RichNodes \cup { PyList(<<r>>) : r \in RichNodes }
    \cup UNION { DocsOfSize(n) : n \in 1..MaxSize }

----------------------------------------------------------------------------
(* The state machine: one document, the calls made on it *)

\* The extractor before its first call, on no document.
ExtractorIdle ==
    /\ response_data = PyNone
    /\ carousels = <<>>
    /\ raised = FALSE
    /\ previous = <<>>
    /\ calls = 0
    /\ inspected = <<>>

\* The window as __init__ leaves it, with no token in config.env.
RequestIdle ==
    /\ is_loading = FALSE
    /\ btn_state = "normal"
    /\ config_token = PyNone
    /\ token_var = PyStr(<<>>)
    /\ workers = <<>>
    /\ auth_errors = 0

\* No text handed to extract_fields_from_text.
FieldsIdle ==
    /\ content = <<>>
    /\ extracted = <<>>

\* No response received: the displays as setup_ui leaves them.
ResponseIdle ==
    /\ response = PyNone
    /\ response_display = <<>>
    /\ summary_display = <<>>
    /\ raw_display = <<>>
    /\ experiments_display = <<>>
    /\ status_var = <<>>
    /\ notebook_tab = "request_tab"

\* No configuration read.
ConfigurationIdle ==
    /\ config = PyDict(<<>>)
    /\ config_vars = PyDict(<<>>)
    /\ config_file = PyNone
    /\ loads = 0
    /\ edits = 0

\* wait_for_device has not been entered.
NoWait ==
    [adb |-> FALSE, elapsed |-> 0, waited |-> "none",
     listed |-> "none", stdout |-> <<>>, outcome |-> "none"]

\* configure_proxy has not been entered.
NoProxy == [adb |-> FALSE, ran |-> <<>>, outcome |-> "none"]

SetupIdle ==
    /\ setup_pc = "idle"
    /\ avd_name = <<>>
    /\ avds = <<>>
    /\ setup_log = <<>>
    /\ wait = NoWait
    /\ proxy = NoProxy
    /\ setup_result = <<>>

Init ==
    /\ response_data \in Documents
    /\ carousels = <<>>
    /\ raised = FALSE
    /\ previous = <<>>
    /\ calls = 0
    /\ inspected = <<>>
    /\ RequestIdle
    /\ FieldsIdle
    /\ ResponseIdle
    /\ ConfigurationIdle
    /\ SetupIdle

\* carousel_titles = self.extract_carousel_titles(response_json)
ExtractCarouselTitles ==
    /\ calls < MaxCalls
    /\ LET r == extract_carousel_titles(response_data)
       IN  /\ carousels' = r.val
           /\ raised' = r.exc
    /\ previous' = carousels
    /\ calls' = calls + 1
    /\ response_data' = response_data_after(response_data)
    /\ UNCHANGED <<inspected, request_vars, fields_vars, response_vars, configuration_vars, setup_vars>>

\* self.is_store_carousel(obj) on a document that is one candidate mapping.
IsStoreCarousel ==
    /\ response_data \in CandidateNodes
    /\ inspected = <<>>
    /\ inspected' = <<is_store_carousel(response_data)>>
    /\ UNCHANGED <<response_data, carousels, raised, previous, calls,
                   request_vars, fields_vars, response_vars, configuration_vars, setup_vars>>

Next == ExtractCarouselTitles \/ IsStoreCarousel

Spec == Init /\ [][Next]_vars

----------------------------------------------------------------------------
(* What the specification says of a document, stated without the code *)

HasKey(n, k) == \E i \in 1..Len(n.v) : n.v[i].key = k

ValueOf(n, k) == n.v[CHOOSE i \in 1..Len(n.v) : n.v[i].key = k].value

IsPrefixOf(p, s) == Len(s) >= Len(p) /\ SubSeq(s, 1, Len(p)) = p

\* The component signature of spec section 3.
SatisfiesSignature(n) ==
    /\ n.type = "dict"
    /\ HasKey(n, "id")
    /\ ValueOf(n, "id").type = "str"
    /\ IsPrefixOf(StoreCarouselPrefix, ValueOf(n, "id").v)
    /\ HasKey(n, "component")
    /\ ValueOf(n, "component").type = "dict"
    /\ HasKey(ValueOf(n, "component"), "id")
    /\ ValueOf(ValueOf(n, "component"), "id") = PyStr(CarouselStandard)
    /\ HasKey(ValueOf(n, "component"), "category")
    /\ ValueOf(ValueOf(n, "component"), "category") = PyStr(CarouselCategory)

\* A string with a character that is not whitespace.
NonBlank(x) == x.type = "str" /\ \E i \in 1..Len(x.v) : x.v[i] \notin Whitespace

\* s from its first to its last character that is not whitespace.
Trimmed(s) ==
    LET solid == { i \in 1..Len(s) : s[i] \notin Whitespace }
        first == CHOOSE i \in solid : \A j \in solid : i <= j
        last == CHOOSE i \in solid : \A j \in solid : i >= j
    IN  SubSeq(s, first, last)

KeepsText(e) == NonBlank(e.value)

\* The text_fields the specification gives node n.
ExpectedTextFields(n) ==
    IF HasKey(n, "text") /\ ValueOf(n, "text").type = "dict"
    THEN LET kept == SelectSeq(ValueOf(n, "text").v, KeepsText)
         IN  PyDict([i \in 1..Len(kept) |->
                        Entry(kept[i].key, PyStr(Trimmed(kept[i].value.v)))])
    ELSE PyDict(<<>>)

\* A node that the specification reports: the signature and a usable text.
Qualifies(n) == SatisfiesSignature(n) /\ ExpectedTextFields(n).v # <<>>

ExpectedRecord(n) ==
    PyDict(<< Entry("id", ValueOf(n, "id")),
              Entry("component_id", PyStr(CarouselStandard)),
              Entry("component_category", PyStr(CarouselCategory)),
              Entry("text_fields", ExpectedTextFields(n)) >>)

\* A candidate whose 'component' is no mapping or whose 'id' is no string.
Malformed(n) ==
    /\ n.type = "dict"
    /\ \/ HasKey(n, "component") /\ ValueOf(n, "component").type # "dict"
       \/ HasKey(n, "id") /\ ValueOf(n, "id").type # "str"

ChildrenOf(n) ==
    IF n.type = "dict" THEN [i \in 1..Len(n.v) |-> n.v[i].value]
    ELSE IF n.type = "list" THEN n.v
    ELSE <<>>

RECURSIVE PreOrder(_)
RECURSIVE PreOrderOfEach(_)

\* The nodes of the tree under n, n first, then each child's in turn.
PreOrder(n) == <<n>> \o PreOrderOfEach(ChildrenOf(n))

PreOrderOfEach(ns) ==
    IF ns = <<>> THEN <<>> ELSE PreOrder(Head(ns)) \o PreOrderOfEach(Tail(ns))

NodesInOrder == PreOrder(response_data)

\* The nodes the specification reports, in depth-first pre-order.
QualifyingNodes == SelectSeq(NodesInOrder, Qualifies)

\* The places in nodes of the nodes that qualify.
QualifyingAt(nodes) == { i \in 1..Len(nodes) : Qualifies(nodes[i]) }

\* How many of the first i nodes qualify: the place of node i's record.
Rank(qualifying, i) == Cardinality({ j \in qualifying : j <= i })

\* Node j lies in the subtree of node i (and is not node i).
Below(nodes, i, j) == i < j /\ j < i + Len(PreOrder(nodes[i]))

\* The node has a 'text' mapping with an entry that is a non-blank string.
HasUsableText(n) ==
    /\ HasKey(n, "text")
    /\ ValueOf(n, "text").type = "dict"
    /\ \E k \in 1..Len(ValueOf(n, "text").v) : NonBlank(ValueOf(n, "text").v[k].value)

Occurrences(xs, x) == Cardinality({ i \in 1..Len(xs) : xs[i] = x })

Returned == calls > 0

TextFieldsOf(record) == DictGet(record, "text_fields", PyNone)

----------------------------------------------------------------------------
(* The claims *)

\* C1: is_store_carousel(node) is true for a mapping node exactly when the
\* node has a string 'id' starting with 'carousel.standard:store_carousel' and
\* a mapping 'component' with id 'carousel.standard' and category 'carousel';
\* for every other mapping it returns false, and it raises for none.
C1_SignatureIff ==
    inspected # <<>> =>
        /\ ~inspected[1].exc
        /\ inspected[1].val <=> SatisfiesSignature(response_data)

C1_Witness == inspected # <<>> /\ inspected[1].val

\* C2: the returned list holds exactly one record for each node, at any
\* depth, that satisfies the signature and has a usable text entry, and no
\* other record: as many records as such nodes, each record as often as
\* there are nodes with that content.
C2_OneRecordPerQualifyingNode ==
    Returned =>
        LET expected == QualifyingNodes
            records == [i \in 1..Len(expected) |-> ExpectedRecord(expected[i])]
        IN  /\ Len(carousels) = Len(expected)
            /\ \A i \in 1..Len(records) :
                  Occurrences(carousels, records[i]) = Occurrences(records, records[i])

C2_Witness ==
    /\ Returned
    /\ \E i, j \in 1..Len(carousels) : i < j /\ carousels[i] = carousels[j]

\* C3: the records are in depth-first pre-order of their nodes: the i-th
\* record is the record of the i-th qualifying node in pre-order.
C3_PreOrder ==
    Returned =>
        LET expected == QualifyingNodes
        IN  carousels = [i \in 1..Len(expected) |-> ExpectedRecord(expected[i])]

C3_Witness ==
    /\ Returned
    /\ Qualifies(response_data)
    /\ Len(carousels) = 3
    /\ carousels[2] # carousels[3]

\* C4: text_fields of every record maps exactly the keys of the node's 'text'
\* mapping whose value is a string that is non-empty after trimming, each to
\* its trimmed value.
C4_TextFields ==
    Returned =>
        LET expected == QualifyingNodes
        IN  \A i \in 1..Len(carousels) :
                /\ i <= Len(expected)
                /\ TextFieldsOf(carousels[i]) = ExpectedTextFields(expected[i])

C4_Witness ==
    /\ Returned
    /\ SatisfiesSignature(response_data)
    /\ Len(carousels) = 1
    /\ TextFieldsOf(carousels[1]) =
          PyDict(<<Entry("title", PyStr(<<"P","o","p","u","l","a","r"," ",
                                         "n","e","a","r"," ","y","o","u">>))>>)
    /\ HasKey(ValueOf(response_data, "text"), "subtitle")

\* C5: a node that satisfies the signature but has no usable text produces no
\* record, and every record has a non-empty text_fields mapping.
C5_NoTextNoRecord ==
    Returned =>
        LET nodes == NodesInOrder
        IN  /\ \A i \in 1..Len(carousels) :
                  /\ TextFieldsOf(carousels[i]).type = "dict"
                  /\ TextFieldsOf(carousels[i]).v # <<>>
            /\ Len(carousels)
               = Cardinality({ i \in 1..Len(nodes) :
                                 SatisfiesSignature(nodes[i]) /\ HasUsableText(nodes[i]) })

C5_Witness ==
    /\ Returned
    /\ SatisfiesSignature(response_data)
    /\ HasKey(response_data, "text")
    /\ ValueOf(response_data, "text") = PyDict(<<Entry("title", PyStr(<<" ","\t">>))>>)
    /\ carousels = <<>>

\* C6: when a qualifying node has another qualifying node anywhere in its
\* subtree, both have their record in the result.
C6_NestedBothReported ==
    Returned =>
        LET nodes == NodesInOrder
            qualifying == QualifyingAt(nodes)
        IN  \A i, j \in qualifying :
                Below(nodes, i, j) =>
                    /\ Rank(qualifying, j) <= Len(carousels)
                    /\ carousels[Rank(qualifying, i)] = ExpectedRecord(nodes[i])
                    /\ carousels[Rank(qualifying, j)] = ExpectedRecord(nodes[j])

C6_Witness ==
    /\ Returned
    /\ Qualifies(response_data)
    /\ \E k \in 1..Len(response_data.v) :
          /\ response_data.v[k].value.type = "list"
          /\ Len(response_data.v[k].value.v) > 0
          /\ Qualifies(response_data.v[k].value.v[1])
    /\ Len(carousels) >= 2

\* C7: the result is the empty list, and nothing is raised, for an empty
\* sequence, an empty mapping, null, a bare primitive, and any document
\* without a node that satisfies the signature.
C7_EmptyResult ==
    Returned =>
        LET nodes == NodesInOrder
        IN  (\A i \in 1..Len(nodes) : ~SatisfiesSignature(nodes[i])) =>
                carousels = <<>> /\ ~raised

C7_Witness ==
    /\ Returned
    /\ response_data = PyNone
    /\ carousels = <<>>

\* C8: a malformed candidate contributes no record and does not stop the
\* traversal: every qualifying node elsewhere, also below the malformed one,
\* has its record in the result.
C8_MalformedSkipped ==
    Returned =>
        LET nodes == NodesInOrder
            qualifying == QualifyingAt(nodes)
        IN  (\E m \in 1..Len(nodes) : Malformed(nodes[m])) =>
                /\ Len(carousels) = Cardinality(qualifying)
                /\ \A m \in 1..Len(nodes) : Malformed(nodes[m]) => m \notin qualifying
                /\ \A i \in qualifying :
                      carousels[Rank(qualifying, i)] = ExpectedRecord(nodes[i])

C8_Witness ==
    /\ Returned
    /\ Malformed(response_data)
    /\ Len(carousels) >= 1

\* C9: for every document the call returns a list and no exception leaves it;
\* a node whose inspection raises is passed over as "no match", so the list
\* has one mapping for each qualifying node.
C9_NeverRaises ==
    Returned =>
        /\ ~raised
        /\ \A i \in 1..Len(carousels) : carousels[i].type = "dict"
        /\ Len(carousels) = Len(QualifyingNodes)

C9_Witness ==
    /\ Returned
    /\ ~raised
    /\ response_data.type = "list"
    /\ Len(response_data.v) = 2
    /\ is_store_carousel_try(response_data.v[1]).exc
    /\ Len(carousels) = 1

C11_InputUnchanged == [][response_data' = response_data]_vars

\* A call has returned a record whose text was trimmed from the document's.
C11_Witness ==
    /\ Returned
    /\ SatisfiesSignature(response_data)
    /\ Len(carousels) = 1
    /\ HasUsableText(response_data)
    /\ \E k \in 1..Len(ValueOf(response_data, "text").v) :
          LET e == ValueOf(response_data, "text").v[k]
          IN  /\ NonBlank(e.value)
              /\ Trimmed(e.value.v) # e.value.v
              /\ DictGet(TextFieldsOf(carousels[1]), e.key, PyNone)
                    = PyStr(Trimmed(e.value.v))

\* C12: every returned record has exactly the keys id, component_id,
\* component_category and text_fields; id is the matching node's 'id' string,
\* component_id its component's 'id' ('carousel.standard') and
\* component_category its component's 'category' ('carousel'); so every
\* record's id starts with 'carousel.standard:store_carousel'.
C12_RecordShape ==
    Returned =>
        LET expected == QualifyingNodes
        IN  \A i \in 1..Len(carousels) :
                LET record == carousels[i]
                IN  /\ record.type = "dict"
                    /\ Len(record.v) = 4
                    /\ { record.v[k].key : k \in 1..4 } =
                          { "id", "component_id", "component_category",
                            "text_fields" }
                    /\ i <= Len(expected)
                    /\ ValueOf(record, "id") = ValueOf(expected[i], "id")
                    /\ ValueOf(record, "component_id") =
                          ValueOf(ValueOf(expected[i], "component"), "id")
                    /\ ValueOf(record, "component_id") = PyStr(CarouselStandard)
                    /\ ValueOf(record, "component_category") =
                          ValueOf(ValueOf(expected[i], "component"), "category")
                    /\ ValueOf(record, "component_category") =
                          PyStr(CarouselCategory)
                    /\ ValueOf(record, "id").type = "str"
                    /\ IsPrefixOf(StoreCarouselPrefix, ValueOf(record, "id").v)

\* Two records were returned, of nodes with different ids, one inside the
\* other.
C12_Witness ==
    /\ Returned
    /\ Len(carousels) = 2
    /\ response_data.type = "dict"
    /\ DictGet(carousels[1], "id", PyNone) = Chars(<<"_","1">>)
    /\ DictGet(carousels[2], "id", PyNone) = Chars(<<"_","2">>)

----------------------------------------------------------------------------
(* Part 2: the request worker of DoorDashAPIGUI                            *)
(* (make_request_threaded on the Tk main thread, make_request on a thread  *)
(* of its own, one step of the model for each statement that touches what  *)
(* the two share).                                                         *)

\* Largest number of workers started in one behaviour.
MaxWorkers == 3

\* Largest number of "Authorization Error" boxes in one behaviour.
MaxAuthErrors == 2

UpperLetters ==
    <<"A","B","C","D","E","F","G","H","I","J","K","L","M",
      "N","O","P","Q","R","S","T","U","V","W","X","Y","Z">>

LowerLetters ==
    <<"a","b","c","d","e","f","g","h","i","j","k","l","m",
      "n","o","p","q","r","s","t","u","v","w","x","y","z">>

\* str.lower(), on the letters A-Z.
Lower(s) ==
    [i \in 1..Len(s) |->
        IF \E k \in 1..26 : UpperLetters[k] = s[i]
        THEN LowerLetters[CHOOSE k \in 1..26 : UpperLetters[k] = s[i]]
        ELSE s[i]]

\* not token or token.lower() == 'null' or not token.strip()
TokenMissing(token) ==
    \/ token.type = "NoneType"
    \/ token.v = <<>>
    \/ Lower(token.v) = <<"n","u","l","l">>
    \/ Strip(token.v) = <<>>

\* validate_auth_token: show_jwt_error_dialog opens its window and returns, so
\* the second test reads the token the first one read.
validate_auth_token(token) ==
    IF TokenMissing(token) THEN Raise(PyNone) ELSE Return(PyNone)

JWTPrefix == <<"J","W","T"," ">>

\* The value create_config_field puts in the token entry.
initial_value(token) ==
    IF ~Truthy(token) THEN PyStr(<<>>)
    ELSE IF StartsWith(token.v, JWTPrefix)
    THEN PyStr(Strip(SubSeq(token.v, 5, Len(token.v))))
    ELSE PyStr(Strip(token.v))

\* What load_config leaves in self.config['AUTHORIZATION_TOKEN'].
LoadedTokens ==
    { PyNone,
      PyStr(<<"N","U","L","L">>),
      PyStr(<<" ">>),
      PyStr(<<"t","0","k">>),
      PyStr(<<"J","W","T"," ","t","0","k">>) }

\* What the user leaves in the token entry.
TypedTokens ==
    { PyStr(<<>>), PyStr(<<" ">>), PyStr(<<"N","u","l","l">>),
      PyStr(<<"t","0","k">>) }

\* The outcomes of requests.get / requests.post (timeout=30).
HttpOutcomes == { "response", "exception" }

\* A thread as threading.Thread(target=self.make_request).start() makes it.
\* pc is the statement it is at; http_calls counts its requests.get/post
\* calls, surfaced its "Request Error" boxes; failed tells what raised;
\* loading_at_start is the is_loading that make_request_threaded read and
\* token_at_start whether the token it read was there; authorization is the
\* value in the local `headers`, <<>> while the thread has no such local
\* (before it is built and after make_request has returned).
NewWorker(loading, token) ==
    [pc |-> "sync", http_calls |-> 0, surfaced |-> 0, failed |-> "none",
     loading_at_start |-> loading, token_at_start |-> ~TokenMissing(token),
     authorization |-> <<>>]

RequestState ==
    [is_loading |-> is_loading, btn_state |-> btn_state,
     config_token |-> config_token, token_var |-> token_var,
     workers |-> workers, auth_errors |-> auth_errors]

SetRequestState(s) ==
    /\ is_loading' = s.is_loading
    /\ btn_state' = s.btn_state
    /\ config_token' = s.config_token
    /\ token_var' = s.token_var
    /\ workers' = s.workers
    /\ auth_errors' = s.auth_errors

\* make_request_threaded that leaves the button as it is.
make_request_threaded_button_enabled(s) ==
    IF s.is_loading THEN s
    ELSE IF validate_auth_token(s.config_token).exc
    THEN [s EXCEPT !.auth_errors = @ + 1]
    ELSE [s EXCEPT !.is_loading = TRUE,
                   !.workers = Append(@, NewWorker(s.is_loading, s.config_token))]

make_request_threaded(s) ==
    IF s.is_loading THEN s
    ELSE IF validate_auth_token(s.config_token).exc
    THEN [s EXCEPT !.auth_errors = @ + 1]
    ELSE [s EXCEPT !.is_loading = TRUE,
                   !.btn_state = "disabled",
                   !.workers = Append(@, NewWorker(s.is_loading, s.config_token))]

\* for key, var in self.config_vars.items(): self.config[key] = var.get()
make_request_sync(s, w) ==
    [s EXCEPT !.config_token = s.token_var, !.workers[w].pc = "validate"]

\* self.validate_auth_token() inside the try of make_request.
make_request_validate(s, w) ==
    IF validate_auth_token(s.config_token).exc
    THEN [s EXCEPT !.workers[w].pc = "handle",
                   !.workers[w].failed = "preparation"]
    ELSE [s EXCEPT !.workers[w].pc = "headers"]

\* f"{token}" for what self.config holds: str(None) is 'None'.
Formatted(token) ==
    IF token.type = "NoneType" THEN <<"N","o","n","e">> ELSE token.v

\* url, params, then headers = {..., "authorization": f"JWT {self.config.get(
\* 'AUTHORIZATION_TOKEN', '')}", ...}; the value is never empty, so `Remove
\* empty headers` keeps it.
make_request_headers(s, w) ==
    [s EXCEPT !.workers[w].authorization = JWTPrefix \o Formatted(s.config_token),
              !.workers[w].pc = "send"]

\* save_configuration, for the token: value = var.get().strip(); 'null' in
\* any case is stored as None, '' as '', anything else as it is.
save_configuration(s) ==
    LET value == Strip(s.token_var.v)
    IN  [s EXCEPT !.config_token =
            IF Lower(value) = <<"n","u","l","l">> THEN PyNone ELSE PyStr(value)]

\* What config.env holds for AUTHORIZATION_TOKEN: no such line, or the value
\* of its line.
FileTokens ==
    { Absent, PyStr(<<>>), PyStr(<<"n","u","l","l">>) } \cup (LoadedTokens \ { PyNone })

\* load_config, for the token: a line overwrites what self.config holds, no
\* line leaves it; then a falsy value or 'null' is made None.
load_config_token(old, in_file) ==
    LET value == IF in_file = Absent THEN old ELSE in_file
    IN  IF ~Truthy(value) \/ value = PyStr(<<"n","u","l","l">>) THEN PyNone
        ELSE value

\* reload_config and reset_configuration, for the token: load_config(), then
\* var.set(self.config.get(key, '')), which for None sets 'None'.
reload_config(s, in_file) ==
    LET token == load_config_token(s.config_token, in_file)
    IN  [s EXCEPT !.config_token = token,
                  !.token_var = PyStr(Formatted(token))]

\* make_request_send that calls again when its first call raised.
make_request_send_retry(s, w, outcome) ==
    IF outcome = "response"
    THEN [s EXCEPT !.workers[w].http_calls = @ + 1,
                   !.workers[w].pc = "process"]
    ELSE IF s.workers[w].http_calls = 0
    THEN [s EXCEPT !.workers[w].http_calls = @ + 1]
    ELSE [s EXCEPT !.workers[w].http_calls = @ + 1,
                   !.workers[w].pc = "handle",
                   !.workers[w].failed = "call"]

\* show_request_details, then the one requests.post or requests.get; what it
\* raises goes to `except Exception as e: self.handle_request_error(e)`.
make_request_send(s, w, outcome) ==
    IF outcome = "response"
    THEN [s EXCEPT !.workers[w].http_calls = @ + 1,
                   !.workers[w].pc = "process"]
    ELSE [s EXCEPT !.workers[w].http_calls = @ + 1,
                   !.workers[w].pc = "handle",
                   !.workers[w].failed = "call"]

\* The try of process_response and its `except Exception` handler.
process_response_try(s, w) == [s EXCEPT !.workers[w].pc = "finally"]

\* finally: self.is_loading = False
process_response_finally(s, w) ==
    [s EXCEPT !.is_loading = FALSE, !.workers[w].pc = "enable"]

\* self.make_request_btn.config(state='normal'), the last statement.
process_response_enable(s, w) ==
    [s EXCEPT !.btn_state = "normal", !.workers[w].pc = "done",
              !.workers[w].authorization = <<>>]

\* handle_request_error up to messagebox.showerror("Request Error", ...).
handle_request_error_show(s, w) ==
    [s EXCEPT !.workers[w].surfaced = @ + 1, !.workers[w].pc = "reset"]

\* handle_request_error that leaves is_loading as it is.
handle_request_error_reset_keeps_flag(s, w) ==
    [s EXCEPT !.workers[w].pc = "enable_after_error"]

\* self.is_loading = False
handle_request_error_reset(s, w) ==
    [s EXCEPT !.is_loading = FALSE, !.workers[w].pc = "enable_after_error"]

\* self.make_request_btn.config(state='normal'), the last statement.
handle_request_error_enable(s, w) ==
    [s EXCEPT !.btn_state = "normal", !.workers[w].pc = "done",
              !.workers[w].authorization = <<>>]

InitRequest ==
    /\ ExtractorIdle
    /\ FieldsIdle
    /\ ResponseIdle
    /\ ConfigurationIdle
    /\ SetupIdle
    /\ is_loading = FALSE
    /\ btn_state = "normal"
    /\ config_token \in LoadedTokens
    /\ token_var = initial_value(config_token)
    /\ workers = <<>>
    /\ auth_errors = 0

\* The button's command: Tk runs it for a click on the button while the
\* button is not disabled.
MakeRequestThreaded ==
    /\ btn_state = "normal"
    /\ Len(workers) < MaxWorkers
    /\ auth_errors < MaxAuthErrors
    /\ SetRequestState(make_request_threaded(RequestState))
    /\ UNCHANGED <<extractor_vars, fields_vars, response_vars, configuration_vars, setup_vars>>

\* The user changes what the token entry holds.
EditToken ==
    /\ \E t \in TypedTokens :
          /\ t # token_var
          /\ token_var' = t
    /\ UNCHANGED <<is_loading, btn_state, config_token, workers, auth_errors,
                   extractor_vars, fields_vars, response_vars, configuration_vars, setup_vars>>

\* The "Save Configuration" button.
SaveConfiguration ==
    /\ SetRequestState(save_configuration(RequestState))
    /\ UNCHANGED <<extractor_vars, fields_vars, response_vars, configuration_vars, setup_vars>>

\* The "Reset to File" button and reload_config, on the config.env of the
\* moment.
ReloadConfig ==
    /\ \E in_file \in FileTokens :
          SetRequestState(reload_config(RequestState, in_file))
    /\ UNCHANGED <<extractor_vars, fields_vars, response_vars, configuration_vars, setup_vars>>

At(w, pc) == workers[w].pc = pc

WorkerSync ==
    /\ \E w \in 1..Len(workers) :
          /\ At(w, "sync")
          /\ SetRequestState(make_request_sync(RequestState, w))
    /\ UNCHANGED <<extractor_vars, fields_vars, response_vars, configuration_vars, setup_vars>>

WorkerValidate ==
    /\ \E w \in 1..Len(workers) :
          /\ At(w, "validate")
          /\ SetRequestState(make_request_validate(RequestState, w))
    /\ UNCHANGED <<extractor_vars, fields_vars, response_vars, configuration_vars, setup_vars>>

WorkerHeaders ==
    /\ \E w \in 1..Len(workers) :
          /\ At(w, "headers")
          /\ SetRequestState(make_request_headers(RequestState, w))
    /\ UNCHANGED <<extractor_vars, fields_vars, response_vars, configuration_vars, setup_vars>>

WorkerSend ==
    /\ \E w \in 1..Len(workers), outcome \in HttpOutcomes :
          /\ At(w, "send")
          /\ SetRequestState(make_request_send(RequestState, w, outcome))
    /\ UNCHANGED <<extractor_vars, fields_vars, response_vars, configuration_vars, setup_vars>>

WorkerProcessResponse ==
    /\ \E w \in 1..Len(workers) :
          /\ At(w, "process")
          /\ SetRequestState(process_response_try(RequestState, w))
    /\ UNCHANGED <<extractor_vars, fields_vars, response_vars, configuration_vars, setup_vars>>

WorkerFinally ==
    /\ \E w \in 1..Len(workers) :
          /\ At(w, "finally")
          /\ SetRequestState(process_response_finally(RequestState, w))
    /\ UNCHANGED <<extractor_vars, fields_vars, response_vars, configuration_vars, setup_vars>>

WorkerEnable ==
    /\ \E w \in 1..Len(workers) :
          /\ At(w, "enable")
          /\ SetRequestState(process_response_enable(RequestState, w))
    /\ UNCHANGED <<extractor_vars, fields_vars, response_vars, configuration_vars, setup_vars>>

WorkerHandleError ==
    /\ \E w \in 1..Len(workers) :
          /\ At(w, "handle")
          /\ SetRequestState(handle_request_error_show(RequestState, w))
    /\ UNCHANGED <<extractor_vars, fields_vars, response_vars, configuration_vars, setup_vars>>

WorkerErrorReset ==
    /\ \E w \in 1..Len(workers) :
          /\ At(w, "reset")
          /\ SetRequestState(handle_request_error_reset(RequestState, w))
    /\ UNCHANGED <<extractor_vars, fields_vars, response_vars, configuration_vars, setup_vars>>

WorkerErrorEnable ==
    /\ \E w \in 1..Len(workers) :
          /\ At(w, "enable_after_error")
          /\ SetRequestState(handle_request_error_enable(RequestState, w))
    /\ UNCHANGED <<extractor_vars, fields_vars, response_vars, configuration_vars, setup_vars>>

NextRequest ==
    \/ MakeRequestThreaded
    \/ EditToken
    \/ SaveConfiguration
    \/ ReloadConfig
    \/ WorkerSync
    \/ WorkerValidate
    \/ WorkerHeaders
    \/ WorkerSend
    \/ WorkerProcessResponse
    \/ WorkerFinally
    \/ WorkerEnable
    \/ WorkerHandleError
    \/ WorkerErrorReset
    \/ WorkerErrorEnable

SpecRequest == InitRequest /\ [][NextRequest]_vars

\* The steps of the worker threads. A started thread is scheduled until its
\* target returns; requests.get/post return or raise within their timeout=30;
\* the "Request Error" box returns when the user closes it.
WorkerStep ==
    \/ WorkerSync
    \/ WorkerValidate
    \/ WorkerHeaders
    \/ WorkerSend
    \/ WorkerProcessResponse
    \/ WorkerFinally
    \/ WorkerEnable
    \/ WorkerHandleError
    \/ WorkerErrorReset
    \/ WorkerErrorEnable

SpecRequestFair == InitRequest /\ [][NextRequest]_vars /\ WF_vars(WorkerStep)

----------------------------------------------------------------------------
(* The claims on the request worker *)

\* The workers that have a statement of make_request left to run.
Running == { w \in 1..Len(workers) : workers[w].pc # "done" }

\* The statements of a worker ahead of its `self.is_loading = False`.
AheadOfReset == { "sync", "validate", "headers", "send", "process", "finally", "handle",
                  "reset" }

\* C13: overlapping requests are prevented by the in-progress flag:
\* make_request_threaded starts a worker only when is_loading is false and
\* sets it true before the worker starts, a call made while is_loading is
\* true starts nothing, and under any interleaving of clicks and worker
\* completion at most one make_request worker is running at any time.
C13_AtMostOneWorker ==
    /\ Cardinality(Running) <= 1
    /\ \A w \in 1..Len(workers) :
          /\ workers[w].loading_at_start = FALSE
          /\ workers[w].pc \in AheadOfReset => is_loading = TRUE

\* A worker has finished, a click after it started the next one, which is
\* at its HTTP call.
C13_Witness ==
    /\ Len(workers) = 2
    /\ workers[1].pc = "done"
    /\ workers[2].pc = "send"
    /\ is_loading = TRUE
    /\ btn_state = "disabled"

\* C14: no retries: each worker issues at most one HTTP call, and when the
\* call or its preparation fails the error is surfaced exactly once through
\* handle_request_error, with no further HTTP call for that request.
C14_NoRetry ==
    \A w \in 1..Len(workers) :
        LET wk == workers[w]
        IN  /\ wk.http_calls <= 1
            /\ wk.surfaced <= 1
            /\ wk.failed = "preparation" => wk.http_calls = 0
            /\ wk.failed = "none" => wk.surfaced = 0
            /\ (wk.failed # "none"
                  /\ wk.pc \in { "reset", "enable_after_error", "done" })
               => wk.surfaced = 1
            /\ (wk.failed = "none" /\ wk.pc = "done") => wk.http_calls = 1

\* One worker's HTTP call raised and another's token test did; each error
\* was shown and both workers are through.
C14_Witness ==
    /\ Len(workers) >= 2
    /\ \E w \in 1..Len(workers) :
          /\ workers[w].pc = "done"
          /\ workers[w].failed = "call"
          /\ workers[w].http_calls = 1
          /\ workers[w].surfaced = 1
    /\ \E w \in 1..Len(workers) :
          /\ workers[w].pc = "done"
          /\ workers[w].failed = "preparation"
          /\ workers[w].http_calls = 0
          /\ workers[w].surfaced = 1

\* The header value of a token that is there: 'JWT ' and a token that is not
\* empty, not blank and not 'null' in any case.
CarriesToken(authorization) ==
    /\ Len(authorization) > Len(JWTPrefix)
    /\ SubSeq(authorization, 1, Len(JWTPrefix)) = JWTPrefix
    /\ LET token == SubSeq(authorization, Len(JWTPrefix) + 1, Len(authorization))
       IN  /\ Strip(token) # <<>>
           /\ Lower(token) # <<"n","u","l","l">>

C24_NoRequestWithoutToken ==
    \A w \in 1..Len(workers) :
        LET wk == workers[w]
        IN  /\ wk.token_at_start
            /\ wk.failed = "preparation" => wk.http_calls = 0
            /\ (wk.http_calls > 0 /\ wk.pc # "done")
                  => CarriesToken(wk.authorization)

----------------------------------------------------------------------------
(* Part 3: the text-to-config parser of DoorDashAPIGUI                     *)
(* (extract_fields_from_text and format_email). A text is the sequence of  *)
(* its characters; extracted_data is a dict of str values.                 *)

LowerSet == { LowerLetters[k] : k \in 1..26 }

UpperSet == { UpperLetters[k] : k \in 1..26 }

Digits == { "0", "1", "2", "3", "4", "5", "6", "7", "8", "9" }

\* str.upper() of one character, on the letters a-z.
UpperChar(c) ==
    IF c \in LowerSet
    THEN UpperLetters[CHOOSE k \in 1..26 : LowerLetters[k] = c]
    ELSE c

\* sub in s
Contains(s, sub) ==
    \E i \in 1..(Len(s) - Len(sub) + 1) : SubSeq(s, i, i + Len(sub) - 1) = sub

EndsWith(s, suffix) ==
    /\ Len(s) >= Len(suffix)
    /\ SubSeq(s, Len(s) - Len(suffix) + 1, Len(s)) = suffix

\* content.split('\n')
RECURSIVE Split(_)
Split(s) ==
    IF \E i \in 1..Len(s) : s[i] = "\n"
    THEN LET p == CHOOSE i \in 1..Len(s) :
                     s[i] = "\n" /\ \A j \in 1..(i - 1) : s[j] # "\n"
         IN  <<SubSeq(s, 1, p - 1)>> \o Split(SubSeq(s, p + 1, Len(s)))
    ELSE <<s>>

NonEmptyLine(line) == line # <<>>

\* [line.strip() for line in lines if line.strip()]
CleanLines(text) ==
    LET lines == Split(text)
    IN  SelectSeq([i \in 1..Len(lines) |-> Strip(lines[i])], NonEmptyLine)

\* re.match(r'^[a-z][a-z0-9_]*[a-z0-9]$', line)
MatchesKeyPattern(line) ==
    /\ Len(line) >= 2
    /\ line[1] \in LowerSet
    /\ line[Len(line)] \in LowerSet \cup Digits
    /\ \A i \in 2..(Len(line) - 1) : line[i] \in LowerSet \cup Digits \cup {"_"}

\* The words `line not in [...]` leaves out.
NonExperimentWords ==
    { <<"t","y","p","e">>,
      <<"e","x","p","e","r","i","m","e","n","t">>,
      <<"r","e","t","u","r","n">>,
      <<"o","w","n","e","r">>,
      <<"v","e","r","t","i","c","a","l">>,
      <<"c","o","n","s","u","m","e","r">>,
      <<"l","a","s","t">>,
      <<"u","p","d","a","t","e","d">>,
      <<"s","t","a","r","t">>,
      <<"d","a","t","e">>,
      <<"e","n","d">>,
      <<"c","o","n","f","i","g","u","r","e">>,
      <<"t","e","s","t">>,
      <<"m","o","n","i","t","o","r">>,
      <<"d","e","b","u","g">>,
      <<"i","m","p","l","e","m","e","n","t">>,
      <<"h","i","s","t","o","r","y">>,
      <<"d","e","t","a","i","l","s">> }

\* The first loop, from line i on, with its stoplist test left out.
RECURSIVE key_loop_no_stoplist(_, _, _)
key_loop_no_stoplist(clean_lines, i, extracted_data) ==
    IF i > Len(clean_lines) THEN extracted_data
    ELSE IF MatchesKeyPattern(clean_lines[i]) /\ Len(clean_lines[i]) > 5
    THEN DictSet(extracted_data, "key", PyStr(clean_lines[i]))
    ELSE key_loop_no_stoplist(clean_lines, i + 1, extracted_data)

\* The first loop, from line i on: extracted_data['key'] = line; break
RECURSIVE key_loop(_, _, _)
key_loop(clean_lines, i, extracted_data) ==
    IF i > Len(clean_lines) THEN extracted_data
    ELSE IF /\ MatchesKeyPattern(clean_lines[i])
            /\ Len(clean_lines[i]) > 5
            /\ clean_lines[i] \notin NonExperimentWords
    THEN DictSet(extracted_data, "key", PyStr(clean_lines[i]))
    ELSE key_loop(clean_lines, i + 1, extracted_data)

\* HasNext that holds for every line.
HasNext_always(clean_lines, i) == i <= Len(clean_lines)

\* i + 1 < len(clean_lines), for the i-th line counted from 1.
HasNext(clean_lines, i) == i + 1 <= Len(clean_lines)

\* xs[j] for the j-th item counted from 1: IndexError past the end.
Item(xs, j) == IF j \in 1..Len(xs) THEN Return(xs[j]) ELSE Raise(PyNone)

\* str.title(): a letter is upper case after what is no letter, else lower.
Title(s) ==
    [i \in 1..Len(s) |->
        IF s[i] \in LowerSet \cup UpperSet
        THEN IF i = 1 \/ s[i - 1] \notin LowerSet \cup UpperSet
             THEN UpperChar(s[i])
             ELSE Lower(<<s[i]>>)[1]
        ELSE s[i]]

\* Whether r'\d{4}-\d{2}-\d{2}' matches s at p.
IsDateAt(s, p) ==
    /\ p + 9 <= Len(s)
    /\ \A k \in {0, 1, 2, 3, 5, 6, 8, 9} : s[p + k] \in Digits
    /\ s[p + 4] = "-"
    /\ s[p + 7] = "-"

\* re.findall(r'(\d{4}-\d{2}-\d{2})', s) from p on: the matches from left to
\* right, each search starting where the last match ended.
RECURSIVE FindAllDatesFrom(_, _)
FindAllDatesFrom(s, p) ==
    IF p + 9 > Len(s) THEN <<>>
    ELSE IF IsDateAt(s, p)
    THEN <<SubSeq(s, p, p + 9)>> \o FindAllDatesFrom(s, p + 10)
    ELSE FindAllDatesFrom(s, p + 1)

FindAllDates(s) == FindAllDatesFrom(s, 1)

\* The characters re.sub(r'[^a-zA-Z0-9\s.-]', '', email) keeps.
NameChar(c) == c \in LowerSet \cup UpperSet \cup Digits \cup Whitespace \cup {".", "-"}

\* re.sub(r'\s+', '.', s)
RECURSIVE DotWhitespace(_)
DotWhitespace(s) ==
    IF s = <<>> THEN <<>>
    ELSE IF Head(s) \in Whitespace
    THEN <<".">> \o DotWhitespace(LStrip(s))
    ELSE <<Head(s)>> \o DotWhitespace(Tail(s))

DoordashCom == <<"@","d","o","o","r","d","a","s","h",".","c","o","m">>

\* format_email that returns its input as it came.
format_email_raw(input_text) == input_text

format_email(input_text) ==
    IF input_text = <<>> THEN <<>>
    ELSE LET email == Lower(Strip(input_text))
             named == IF ~Contains(email, <<"@">>)
                      THEN DotWhitespace(Strip(SelectSeq(email, NameChar)))
                              \o DoordashCom
                      ELSE email
             fixed == IF EndsWith(named, <<"@","d","o","o","r","d","a","s","h",".","c","o">>)
                      THEN named \o <<"m">>
                      ELSE named
         IN  IF EndsWith(fixed, <<"@","d","d",".","c","o","m">>)
             THEN SubSeq(fixed, 1, Len(fixed) - 7) \o DoordashCom
             ELSE fixed

NameParts == { <<"h","a","r","s","h">>, <<"a","l","k","u","t","k","a","r">> }

\* The `# Extract owner` block for line i.
owner_block(clean_lines, i, extracted_data) ==
    IF Contains(Lower(clean_lines[i]), <<"o","w","n","e","r">>) /\ HasNext(clean_lines, i)
    THEN LET next_line == Item(clean_lines, i + 1)
         IN  IF next_line.exc THEN Raise(PyNone)
             ELSE IF \/ Contains(next_line.val, <<"@">>)
                     \/ \E name_part \in NameParts :
                           Contains(Lower(next_line.val), name_part)
             THEN Return(DictSet(extracted_data, "owner",
                                 PyStr(format_email(next_line.val))))
             ELSE Return(extracted_data)
    ELSE Return(extracted_data)

TypeWords == { <<"e","x","p","e","r","i","m","e","n","t">>, <<"f","e","a","t","u","r","e">>, <<"c","o","n","f","i","g">> }

\* The `# Extract type` block for line i.
type_block(clean_lines, i, extracted_data) ==
    IF Contains(Lower(clean_lines[i]), <<"t","y","p","e">>) /\ HasNext(clean_lines, i)
    THEN LET next_line == Item(clean_lines, i + 1)
         IN  IF next_line.exc THEN Raise(PyNone)
             ELSE IF Lower(next_line.val) \in TypeWords
             THEN Return(DictSet(extracted_data, "type", PyStr(next_line.val)))
             ELSE Return(extracted_data)
    ELSE Return(extracted_data)

\* The block with 'true' as the default of a boolean experiment.
return_type_block_true(clean_lines, i, extracted_data) ==
    IF Contains(Lower(clean_lines[i]), <<"r","e","t","u","r","n"," ","t","y","p","e">>) /\ HasNext(clean_lines, i)
    THEN LET item == Item(clean_lines, i + 1)
         IN  IF item.exc THEN Raise(PyNone)
             ELSE LET next_line == Lower(item.val)
                      defaulted ==
                          IF Contains(next_line, <<"b","o","o","l","e","a","n">>)
                          THEN DictSet(extracted_data, "defaultValue",
                                       PyStr(<<"t","r","u","e">>))
                          ELSE IF Contains(next_line, <<"s","t","r","i","n","g">>)
                          THEN DictSet(extracted_data, "defaultValue",
                                       PyStr(<<"c","o","n","t","r","o","l">>))
                          ELSE extracted_data
                  IN  Return(DictSet(defaulted, "returnType",
                                     PyStr(Title(next_line))))
    ELSE Return(extracted_data)

\* The `# Extract return type for default value` block for line i.
return_type_block(clean_lines, i, extracted_data) ==
    IF Contains(Lower(clean_lines[i]), <<"r","e","t","u","r","n"," ","t","y","p","e">>) /\ HasNext(clean_lines, i)
    THEN LET item == Item(clean_lines, i + 1)
         IN  IF item.exc THEN Raise(PyNone)
             ELSE LET next_line == Lower(item.val)
                      defaulted ==
                          IF Contains(next_line, <<"b","o","o","l","e","a","n">>)
                          THEN DictSet(extracted_data, "defaultValue",
                                       PyStr(<<"f","a","l","s","e">>))
                          ELSE IF Contains(next_line, <<"s","t","r","i","n","g">>)
                          THEN DictSet(extracted_data, "defaultValue",
                                       PyStr(<<"c","o","n","t","r","o","l">>))
                          ELSE extracted_data
                  IN  Return(DictSet(defaulted, "returnType",
                                     PyStr(Title(next_line))))
    ELSE Return(extracted_data)

\* The `# Extract description from Problem Statement` block for line i.
description_block(clean_lines, i, extracted_data) ==
    IF /\ Contains(Lower(clean_lines[i]), <<"p","r","o","b","l","e","m"," ","s","t","a","t","e","m","e","n","t">>)
       /\ HasNext(clean_lines, i)
    THEN LET next_line == Item(clean_lines, i + 1)
         IN  IF next_line.exc THEN Raise(PyNone)
             ELSE IF Len(next_line.val) > 20
             THEN Return(DictSet(extracted_data, "description",
                                 PyStr(next_line.val)))
             ELSE Return(extracted_data)
    ELSE Return(extracted_data)

DateKeywords == { <<"s","t","a","r","t"," ","d","a","t","e">>, <<"e","n","d"," ","d","a","t","e">>, <<"d","a","t","e">> }

Years == { <<"2","0","2","6">>, <<"2","0","2","7">>, <<"2","0","2","8">> }

\* check_dates that takes a single date whatever the lines hold.
RECURSIVE check_dates_any_single(_, _, _)
check_dates_any_single(check_lines, line_lower, extracted_data) ==
    IF check_lines = <<>> THEN extracted_data
    ELSE LET check_line == Head(check_lines)
             date_matches == FindAllDates(check_line)
         IN  IF date_matches # <<>>
             THEN IF Len(date_matches) > 1
                  THEN DictSet(extracted_data, "expiration",
                               PyStr(date_matches[Len(date_matches)]))
                  ELSE DictSet(extracted_data, "expiration",
                               PyStr(date_matches[1]))
             ELSE check_dates_any_single(Tail(check_lines), line_lower,
                                         extracted_data)

\* check_dates that takes the first of several dates.
RECURSIVE check_dates_first(_, _, _)
check_dates_first(check_lines, line_lower, extracted_data) ==
    IF check_lines = <<>> THEN extracted_data
    ELSE LET check_line == Head(check_lines)
             date_matches == FindAllDates(check_line)
         IN  IF date_matches # <<>>
             THEN IF Len(date_matches) > 1
                  THEN DictSet(extracted_data, "expiration",
                               PyStr(date_matches[1]))
                  ELSE IF \/ Contains(line_lower, <<"e","n","d">>)
                          \/ \E year \in Years : Contains(check_line, year)
                  THEN DictSet(extracted_data, "expiration",
                               PyStr(date_matches[1]))
                  ELSE extracted_data
             ELSE check_dates_first(Tail(check_lines), line_lower,
                                    extracted_data)

\* for check_line in [...]: the first line with a date decides, then break.
RECURSIVE check_dates(_, _, _)
check_dates(check_lines, line_lower, extracted_data) ==
    IF check_lines = <<>> THEN extracted_data
    ELSE LET check_line == Head(check_lines)
             date_matches == FindAllDates(check_line)
         IN  IF date_matches # <<>>
             THEN IF Len(date_matches) > 1
                  THEN DictSet(extracted_data, "expiration",
                               PyStr(date_matches[Len(date_matches)]))
                  ELSE IF \/ Contains(line_lower, <<"e","n","d">>)
                          \/ \E year \in Years : Contains(check_line, year)
                  THEN DictSet(extracted_data, "expiration",
                               PyStr(date_matches[1]))
                  ELSE extracted_data
             ELSE check_dates(Tail(check_lines), line_lower, extracted_data)

\* The `# Extract dates` block for line i.
dates_block(clean_lines, i, extracted_data) ==
    LET line == clean_lines[i]
        line_lower == Lower(line)
    IN  IF \E date_keyword \in DateKeywords : Contains(line_lower, date_keyword)
        THEN LET following == IF HasNext(clean_lines, i)
                              THEN Item(clean_lines, i + 1)
                              ELSE Return(<<>>)
             IN  IF following.exc THEN Raise(PyNone)
                 ELSE Return(check_dates(<<line, following.val>>, line_lower,
                                         extracted_data))
        ELSE Return(extracted_data)

\* The body of the second loop for line i: an exception of one block leaves
\* the loop.
fields_of_line(clean_lines, i, extracted_data) ==
    LET a == owner_block(clean_lines, i, extracted_data)
    IN  IF a.exc THEN a
        ELSE LET b == type_block(clean_lines, i, a.val)
        IN  IF b.exc THEN b
        ELSE LET c == return_type_block(clean_lines, i, b.val)
        IN  IF c.exc THEN c
        ELSE LET d == description_block(clean_lines, i, c.val)
        IN  IF d.exc THEN d
        ELSE dates_block(clean_lines, i, d.val)

\* The second loop, from line i on. steps holds extracted_data as it stood
\* ahead of each line gone through, and as it stands now, last.
RECURSIVE fields_loop(_, _, _)
fields_loop(clean_lines, i, steps) ==
    IF i > Len(clean_lines) THEN [exc |-> FALSE, steps |-> steps]
    ELSE LET r == fields_of_line(clean_lines, i, steps[Len(steps)])
         IN  IF r.exc THEN [exc |-> TRUE, steps |-> steps]
             ELSE fields_loop(clean_lines, i + 1, Append(steps, r.val))

\* What a call leaves: whether it raised, what it returned, and the steps of
\* its second loop.
Outcome(r) ==
    [exc |-> r.exc,
     val |-> IF r.exc THEN PyNone ELSE r.steps[Len(r.steps)],
     steps |-> r.steps]

\* extract_fields_from_text that starts from a mapping with keys in it.
extract_fields_from_text_placeholders(text) ==
    LET clean_lines == CleanLines(text)
    IN  Outcome(fields_loop(clean_lines, 1,
                  <<key_loop(clean_lines, 1,
                             PyDict(<<Entry("key", PyStr(<<>>)),
                                      Entry("owner", PyStr(<<>>)),
                                      Entry("type", PyStr(<<>>))>>))>>))

extract_fields_from_text(text) ==
    LET clean_lines == CleanLines(text)
    IN  Outcome(fields_loop(clean_lines, 1,
                            <<key_loop(clean_lines, 1, PyDict(<<>>))>>))

----------------------------------------------------------------------------
(* The texts the parser is applied to *)

\* Largest number of lines of a text made of the frequent lines.
MaxLines == 3

BlankLine == <<" ","\t">>

KeyLine == <<" ","m","y","_","f","l","a","g","_","v","2"," ">>

ExperimentLine == <<"e","x","p","e","r","i","m","e","n","t">>

OtherKeyLine == <<"o","t","h","e","r","_","k","e","y","1">>

OwnerLine == <<"O","w","n","e","r",":">>

AddressLine == <<"B","o","b","@","d","d",".","c","o","m">>

EndDateLine == <<"E","n","d"," ","d","a","t","e">>

DateLine == <<"2","0","2","5","-","0","6","-","3","0">>

NameLine == <<"H","a","r","s","h"," ","A">>

StrangerLine == <<"G","r","a","c","e"," ","H">>

ReturnTypeLine == <<"R","e","t","u","r","n"," ","T","y","p","e">>

BooleanLine == <<"B","o","o","l","e","a","n"," ","f","l","a","g">>

ProblemLine == <<"P","r","o","b","l","e","m"," ","S","t","a","t","e","m","e","n","t">>

StartDateLine == <<"S","t","a","r","t"," ","d","a","t","e"," ","2","0","2","5","-","0","1","-","0","1">>

LaunchDateLine == <<"L","a","u","n","c","h"," ","d","a","t","e">>

NearDateLine == <<"2","0","2","6","-","0","1","-","3","1">>

RangeLine == <<"2","0","2","5","-","0","1","-","0","1"," ","-"," ","2","0","2","5","-","1","2","-","3","1">>

ShortLine == <<"a","b","_","1","2">>

CapitalLine == <<"M","y","_","F","l","a","g","_","v","2">>
StringLine == <<"S","t","r","i","n","g">>

\* The lines of which texts of up to MaxLines lines are made.
FrequentLines ==
    { BlankLine,
      KeyLine,
      ExperimentLine,
      OtherKeyLine,
      OwnerLine,
      AddressLine,
      EndDateLine,
      DateLine }

\* The lines of which texts of one and of two lines are made.
Vocabulary ==
    FrequentLines \cup
    { NameLine,
      StrangerLine,
      ReturnTypeLine,
      BooleanLine,
      ProblemLine,
      StartDateLine,
      LaunchDateLine,
      NearDateLine,
      RangeLine,
      ShortLine,
      CapitalLine,
      StringLine }

\* '\n'.join(lines)
RECURSIVE Join(_)
Join(lines) ==
    IF lines = <<>> THEN <<>>
    ELSE IF Len(lines) = 1 THEN lines[1]
    ELSE lines[1] \o <<"\n">> \o Join(Tail(lines))

\* Texts with up to two 'return type' markers, each followed by a line.
ReturnTypeLines == { ReturnTypeLine, BooleanLine, StringLine, DateLine }

ReturnTypeTexts ==
    { <<a, b, c, d>> : a \in ReturnTypeLines, b \in ReturnTypeLines,
                       c \in ReturnTypeLines, d \in ReturnTypeLines }

Texts ==
    { Join(ls) : ls \in { <<>> } \cup { <<a>> : a \in Vocabulary }
                        \cup { <<a, b>> : a \in Vocabulary, b \in Vocabulary }
                        \cup UNION { [1..n -> FrequentLines] : n \in 3..MaxLines }
                        \cup ReturnTypeTexts }

----------------------------------------------------------------------------
(* The state machine: one text, the call made on it *)

InitFields ==
    /\ ExtractorIdle
    /\ RequestIdle
    /\ ResponseIdle
    /\ ConfigurationIdle
    /\ SetupIdle
    /\ content \in Texts
    /\ extracted = <<>>

\* extracted_data = self.extract_fields_from_text(content)
ExtractFieldsFromText ==
    /\ extracted = <<>>
    /\ extracted' = <<extract_fields_from_text(content)>>
    /\ UNCHANGED <<content, extractor_vars, request_vars, response_vars, configuration_vars, setup_vars>>

NextFields == ExtractFieldsFromText

SpecFields == InitFields /\ [][NextFields]_vars

----------------------------------------------------------------------------
(* What the specification says of a text, stated without the code *)

\* The places of the line breaks of text, with the place ahead of its first
\* character and the place after its last.
BreaksOf(text) ==
    {0} \cup { i \in 1..Len(text) : text[i] = "\n" } \cup { Len(text) + 1 }

NthBreak(breaks, k) ==
    CHOOSE b \in breaks : Cardinality({ c \in breaks : c < b }) = k - 1

IsNonBlankLine(line) == \E i \in 1..Len(line) : line[i] \notin Whitespace

\* The trimmed non-empty lines of text, in order.
TrimmedLines(text) ==
    LET breaks == BreaksOf(text)
        raw == [k \in 1..(Cardinality(breaks) - 1) |->
                   SubSeq(text, NthBreak(breaks, k) + 1,
                          NthBreak(breaks, k + 1) - 1)]
        kept == SelectSeq(raw, IsNonBlankLine)
    IN  [k \in 1..Len(kept) |-> Trimmed(kept[k])]

\* word occurs in line.
Occurs(word, line) ==
    \E p \in 1..Len(line) :
        \A k \in 1..Len(word) :
            p + k - 1 <= Len(line) /\ line[p + k - 1] = word[k]

\* word occurs in line, whatever the case of the line's letters.
Mentions(line, word) == Occurs(word, Lower(line))

\* A lowercase-snake-case identifier.
IsSnakeCase(line) ==
    /\ Len(line) >= 2
    /\ \A i \in 1..Len(line) : line[i] \in LowerSet \cup Digits \cup {"_"}
    /\ line[1] \in LowerSet
    /\ line[Len(line)] # "_"

IsKeyCandidate(line) ==
    IsSnakeCase(line) /\ Len(line) > 5 /\ line \notin NonExperimentWords

\* The places of line at which a YYYY-MM-DD date starts.
DatePlaces(line) ==
    { p \in 1..(Len(line) - 9) :
        \A k \in 0..9 : IF k \in {4, 7} THEN line[p + k] = "-"
                        ELSE line[p + k] \in Digits }

DateAt(line, p) == SubSeq(line, p, p + 9)

LastDateOf(line) ==
    DateAt(line, CHOOSE p \in DatePlaces(line) : \A q \in DatePlaces(line) : q <= p)

IsDateMarker(line) == Mentions(line, <<"d","a","t","e">>)

\* The line after line i, or the empty line when line i is the last.
Following(lines, i) == IF i < Len(lines) THEN lines[i + 1] ELSE <<>>

\* The line of a date marker whose dates count: the marker line when it
\* holds a date, else the following line.
Searched(lines, i) ==
    IF DatePlaces(lines[i]) # {} THEN lines[i] ELSE Following(lines, i)

\* The line context of a single date suggests an end date.
SuggestsEnd(marker, searched) ==
    \/ Mentions(marker, <<"e","n","d">>)
    \/ \E year \in Years : Occurs(year, searched)

PassesOwnerCheck(line) ==
    Occurs(<<"@">>, line) \/ \E fragment \in NameParts : Mentions(line, fragment)

HasSuffix(s, suffix) ==
    /\ Len(s) >= Len(suffix)
    /\ \A k \in 1..Len(suffix) : s[Len(s) - Len(suffix) + k] = suffix[k]

\* The words of s: its longest stretches without whitespace.
RECURSIVE WordsOf(_)
WordsOf(s) ==
    IF ~IsNonBlankLine(s) THEN <<>>
    ELSE LET first == CHOOSE i \in 1..Len(s) :
                         s[i] \notin Whitespace
                         /\ \A j \in 1..(i - 1) : s[j] \in Whitespace
             ends == { i \in first..Len(s) :
                         \A j \in first..i : s[j] \notin Whitespace }
             last == CHOOSE i \in ends : \A j \in ends : j <= i
         IN  <<SubSeq(s, first, last)>> \o WordsOf(SubSeq(s, last + 1, Len(s)))

RECURSIVE Dotted(_)
Dotted(words) ==
    IF words = <<>> THEN <<>>
    ELSE IF Len(words) = 1 THEN words[1]
    ELSE words[1] \o <<".">> \o Dotted(Tail(words))

IsNameCharacter(c) ==
    c \in LowerSet \cup UpperSet \cup Digits \cup Whitespace \cup {".", "-"}

\* The address an owner line stands for: the line in lower case; without an
\* '@', its words of letters, digits, '.' and '-' joined by '.' at
\* doordash.com; a trailing '@doordash.co' or '@dd.com' made '@doordash.com'.
AddressOf(line) ==
    LET lowered == Lower(line)
        address == IF Occurs(<<"@">>, lowered) THEN lowered
                   ELSE Dotted(WordsOf(SelectSeq(lowered, IsNameCharacter)))
                           \o <<"@","d","o","o","r","d","a","s","h",".","c","o","m">>
    IN  IF HasSuffix(address, <<"@","d","o","o","r","d","a","s","h",".","c","o">>) THEN address \o <<"m">>
        ELSE IF HasSuffix(address, <<"@","d","d",".","c","o","m">>)
        THEN SubSeq(address, 1, Len(address) - Len(<<"@","d","d",".","c","o","m">>)) \o <<"@","d","o","o","r","d","a","s","h",".","c","o","m">>
        ELSE address

FieldNames ==
    { "key", "owner", "type", "returnType", "defaultValue", "description",
      "expiration" }

\* Field k of mapping d, or Absent.
Field(d, k) == IF HasKey(d, k) THEN ValueOf(d, k) ELSE Absent

\* What in the text a field of the mapping was extracted from.
ExtractedFrom(lines, k, value) ==
    CASE k = "key" -> \E i \in 1..Len(lines) : value = lines[i]
      [] k = "owner" ->
            \E i \in 1..(Len(lines) - 1) :
                Mentions(lines[i], <<"o","w","n","e","r">>) /\ PassesOwnerCheck(lines[i + 1])
      [] k = "type" ->
            \E i \in 1..(Len(lines) - 1) :
                Mentions(lines[i], <<"t","y","p","e">>) /\ value = lines[i + 1]
      [] k = "returnType" ->
            \E i \in 1..(Len(lines) - 1) :
                Mentions(lines[i], <<"r","e","t","u","r","n"," ","t","y","p","e">>) /\ Lower(value) = Lower(lines[i + 1])
      [] k = "defaultValue" ->
            \E i \in 1..(Len(lines) - 1) :
                /\ Mentions(lines[i], <<"r","e","t","u","r","n"," ","t","y","p","e">>)
                /\ \/ Mentions(lines[i + 1], <<"b","o","o","l","e","a","n">>) /\ value = <<"f","a","l","s","e">>
                   \/ Mentions(lines[i + 1], <<"s","t","r","i","n","g">>) /\ value = <<"c","o","n","t","r","o","l">>
      [] k = "description" ->
            \E i \in 1..(Len(lines) - 1) :
                Mentions(lines[i], <<"p","r","o","b","l","e","m"," ","s","t","a","t","e","m","e","n","t">>) /\ value = lines[i + 1]
      [] k = "expiration" ->
            \E i \in 1..Len(lines) :
                /\ IsDateMarker(lines[i])
                /\ Occurs(value, lines[i]) \/ Occurs(value, Following(lines, i))

\* The call of extract_fields_from_text has been made.
Extracted == extracted # <<>>

\* extracted_data ahead of line i of the second loop, and after it.
Before(i) == extracted[1].steps[i]

After(i) == extracted[1].steps[i + 1]

----------------------------------------------------------------------------
(* The claims on the parser *)

\* C15: for every text, the mapping extract_fields_from_text returns has keys
\* drawn only from key, owner, type, returnType, defaultValue, description
\* and expiration; a field that was not extracted is absent, not present with
\* an empty or placeholder value.
C15_OnlyExtractedFields ==
    Extracted =>
        LET lines == TrimmedLines(content)
            data == extracted[1].val
        IN  /\ data.type = "dict"
            /\ \A i \in 1..Len(data.v) :
                  /\ data.v[i].key \in FieldNames
                  /\ \A j \in 1..Len(data.v) : data.v[j].key = data.v[i].key => j = i
                  /\ NonBlank(data.v[i].value)
                  /\ ExtractedFrom(lines, data.v[i].key, data.v[i].value.v)

\* A return type was extracted and nothing else: five fields are absent.
C15_Witness ==
    /\ Extracted
    /\ content = Join(<<ReturnTypeLine, BooleanLine>>)
    /\ { extracted[1].val.v[i].key : i \in 1..Len(extracted[1].val.v) }
          = { "returnType", "defaultValue" }

\* C16: extract_fields_from_text never raises, whatever the text: not on the
\* empty string, not on blank lines only, not when a marker line is the last
\* non-empty line; it returns a mapping in every case.
C16_NeverRaises ==
    Extracted => (~extracted[1].exc /\ extracted[1].val.type = "dict")

\* The call returned for a text whose last non-empty line is an owner marker
\* with blank lines after it.
C16_Witness ==
    /\ Extracted
    /\ ~extracted[1].exc
    /\ LET lines == TrimmedLines(content)
       IN  /\ Len(lines) = 1
           /\ Mentions(lines[1], <<"o","w","n","e","r">>)
           /\ Len(content) > Len(lines[1])

\* C17: 'key' is the first trimmed non-empty line that matches the
\* lowercase-snake-case pattern, is longer than 5 and is not on the stoplist;
\* lines before it that are stoplisted or do not match are skipped, later
\* candidates never replace it, and 'key' is absent when no line qualifies.
C17_FirstCandidateIsKey ==
    Extracted =>
        LET lines == TrimmedLines(content)
            candidates == { i \in 1..Len(lines) : IsKeyCandidate(lines[i]) }
        IN  IF candidates = {}
            THEN Field(extracted[1].val, "key") = Absent
            ELSE Field(extracted[1].val, "key") =
                    PyStr(lines[CHOOSE i \in candidates :
                                   \A j \in candidates : i <= j])

\* A stoplisted line, then the key, then another candidate.
C17_Witness ==
    /\ Extracted
    /\ content = Join(<<ExperimentLine, KeyLine, OtherKeyLine>>)
    /\ Field(extracted[1].val, "key") = PyStr(Trimmed(KeyLine))

\* C18 as stated: for a date marker line the dates of the marker line and of
\* the following line are found together; with two or more of them,
\* 'expiration' is set to the last one.
C18_LastOfBothLines ==
    Extracted =>
        LET lines == TrimmedLines(content)
        IN  \A i \in 1..Len(lines) :
                LET next == Following(lines, i)
                IN  (/\ IsDateMarker(lines[i])
                     /\ Cardinality(DatePlaces(lines[i]))
                           + Cardinality(DatePlaces(next)) >= 2)
                    => Field(After(i), "expiration") =
                          PyStr(IF DatePlaces(next) # {} THEN LastDateOf(next)
                                ELSE LastDateOf(lines[i]))

\* C18, amended: for a date marker line the dates searched are those of the
\* marker line, and those of the following line only when the marker line
\* holds none; with two or more dates on the line searched, 'expiration' is
\* set to the last of them; with one, the dates of the other line never count.
C18_LastOfLineSearched ==
    Extracted =>
        LET lines == TrimmedLines(content)
        IN  \A i \in 1..Len(lines) :
                IsDateMarker(lines[i]) =>
                    LET searched == Searched(lines, i)
                        found == Cardinality(DatePlaces(searched))
                    IN  /\ found >= 2 =>
                            Field(After(i), "expiration") = PyStr(LastDateOf(searched))
                        /\ found = 1 =>
                            Field(After(i), "expiration") \in
                                { PyStr(LastDateOf(searched)),
                                  Field(Before(i), "expiration") }
                        /\ found = 0 =>
                            Field(After(i), "expiration") = Field(Before(i), "expiration")

\* A marker line without a date, followed by a line with two dates.
C18_Witness ==
    /\ Extracted
    /\ content = Join(<<LaunchDateLine, RangeLine>>)
    /\ Field(extracted[1].val, "expiration") = PyStr(<<"2","0","2","5","-","1","2","-","3","1">>)

\* C19: a single date found for a date marker is taken as 'expiration' only
\* if the line context suggests an end date (the marker line contains 'end',
\* or the line with the date a year 2026, 2027 or 2028); otherwise the date
\* is ignored and sets no 'expiration'.
C19_SingleDateNeedsEndContext ==
    Extracted =>
        LET lines == TrimmedLines(content)
        IN  \A i \in 1..Len(lines) :
                LET searched == Searched(lines, i)
                IN  (IsDateMarker(lines[i]) /\ Cardinality(DatePlaces(searched)) = 1)
                    => Field(After(i), "expiration") =
                          IF SuggestsEnd(lines[i], searched)
                          THEN PyStr(LastDateOf(searched))
                          ELSE Field(Before(i), "expiration")

\* A marker line without 'end', followed by a single date of 2025: ignored.
C19_Witness ==
    /\ Extracted
    /\ content = Join(<<LaunchDateLine, DateLine>>)
    /\ Field(extracted[1].val, "expiration") = Absent

\* C20 as stated: after a line containing 'owner' (in any case) the next
\* non-empty line is the value of 'owner' if it contains '@' or a known name
\* fragment; when it fails that check, or the marker is the last line, the
\* marker sets nothing.
C20_OwnerIsNextLine ==
    Extracted =>
        LET lines == TrimmedLines(content)
        IN  \A i \in 1..Len(lines) :
                Mentions(lines[i], <<"o","w","n","e","r">>) =>
                    Field(After(i), "owner") =
                        IF i < Len(lines) /\ PassesOwnerCheck(lines[i + 1])
                        THEN PyStr(lines[i + 1])
                        ELSE Field(Before(i), "owner")

\* C20, amended: after a line containing 'owner' (in any case), if the next
\* non-empty line contains '@' or a known name fragment, 'owner' is set to
\* the address format_email makes of that line; when the line fails that
\* check, or the marker is the last line, the marker sets nothing.
C20_OwnerIsFormattedNextLine ==
    Extracted =>
        LET lines == TrimmedLines(content)
        IN  \A i \in 1..Len(lines) :
                Mentions(lines[i], <<"o","w","n","e","r">>) =>
                    Field(After(i), "owner") =
                        IF i < Len(lines) /\ PassesOwnerCheck(lines[i + 1])
                        THEN PyStr(AddressOf(lines[i + 1]))
                        ELSE Field(Before(i), "owner")

\* An owner marker followed by a name with a known fragment and no '@'.
C20_Witness ==
    /\ Extracted
    /\ content = Join(<<OwnerLine, NameLine>>)
    /\ Field(extracted[1].val, "owner") = PyStr(<<"h","a","r","s","h",".","a","@","d","o","o","r","d","a","s","h",".","c","o","m">>)

----------------------------------------------------------------------------
(* C29: the default value follows the return type *)

\* The places of the lines that mention 'return type', in any case.
ReturnTypeMarkers(lines) ==
    { i \in 1..Len(lines) : Mentions(lines[i], <<"r","e","t","u","r","n"," ","t","y","p","e">>) }

LastReturnTypeMarker(lines) ==
    CHOOSE i \in ReturnTypeMarkers(lines) : \A j \in ReturnTypeMarkers(lines) : j <= i

\* C29: 'defaultValue' is present only together with 'returnType', is one of
\* 'false' and 'control', is 'false' when the line after the last
\* 'return type' marker mentions 'boolean', and is 'control' when that line
\* mentions 'string' and not 'boolean'.
C29_DefaultValueFollowsReturnType ==
    Extracted =>
        LET d == extracted[1].val
            lines == TrimmedLines(content)
            present == HasKey(d, "defaultValue")
        IN  /\ ~extracted[1].exc
            /\ present => HasKey(d, "returnType")
            /\ present => Field(d, "defaultValue") \in
                              { PyStr(<<"f","a","l","s","e">>),
                                PyStr(<<"c","o","n","t","r","o","l">>) }
            /\ ReturnTypeMarkers(lines) # {} =>
                  LET m == LastReturnTypeMarker(lines)
                  IN  m < Len(lines) =>
                        /\ Mentions(lines[m + 1], <<"b","o","o","l","e","a","n">>)
                              => /\ present
                                 /\ Field(d, "defaultValue") = PyStr(<<"f","a","l","s","e">>)
                        /\ ( /\ Mentions(lines[m + 1], <<"s","t","r","i","n","g">>)
                             /\ ~Mentions(lines[m + 1], <<"b","o","o","l","e","a","n">>) )
                              => /\ present
                                 /\ Field(d, "defaultValue") = PyStr(<<"c","o","n","t","r","o","l">>)

\* A boolean marker first, a string marker last: the last one decides.
C29_Witness ==
    /\ Extracted
    /\ content = Join(<<ReturnTypeLine, BooleanLine, ReturnTypeLine, StringLine>>)
    /\ Field(extracted[1].val, "defaultValue") = PyStr(<<"c","o","n","t","r","o","l">>)
    /\ Field(extracted[1].val, "returnType") = PyStr(StringLine)

----------------------------------------------------------------------------
(* Part 4: process_response, from the parsed body to what the displays show *)

ExperimentsChars == <<"e","x","p","e","r","i","m","e","n","t","s">>

\* 'experiments' in container
experiments_in(container) ==
    CASE container.type = "dict" ->
            Return(\E i \in 1..Len(container.v) : container.v[i].key = "experiments")
      [] container.type = "list" ->
            Return(\E i \in 1..Len(container.v) :
                       PyEq(container.v[i], PyStr(ExperimentsChars)))
      [] container.type = "str" -> Return(Contains(container.v, ExperimentsChars))
      [] OTHER -> Raise(<<"TypeError">>)

\* len(x)
PyLen(x) ==
    IF x.type \in {"str", "list", "dict"} THEN Return(Len(x.v))
    ELSE Raise(<<"TypeError">>)

\* What a display is given: the kind of text and what the text is built from.
Text(kind, detail) == [kind |-> kind, detail |-> detail]

\* The `else` text of the carousel display: "No store carousel components
\* found in response" and the patterns looked for.
NoCarouselsText == Text("no_carousels", <<>>)

\* The text listing the records found.
FoundText(carousel_titles) == Text("found", carousel_titles)

\* The body of the loop of parse_experiments_response goes through for exp.
ExperimentParses(exp) ==
    /\ exp.type = "dict"
    /\ LET exposure_context == DictGet(exp, "exposure_context", PyDict(<<>>))
       IN  Truthy(exposure_context) =>
               /\ exposure_context.type = "dict"
               /\ DictGet(exposure_context, "tag", PyStr(<<>>)).type = "str"

\* parse_experiments_response(response_data): the text for the experiments tab.
parse_experiments_response(data) ==
    IF data.type # "dict" THEN Text("not_expected_format", <<>>)
    ELSE LET experiments == DictGet(data, "experiments", PyList(<<>>))
         IN  IF ~Truthy(experiments) THEN Text("no_experiments_found", <<>>)
             ELSE IF /\ experiments.type = "list"
                     /\ \A i \in 1..Len(experiments.v) : ExperimentParses(experiments.v[i])
             THEN Text("analysis", experiments.v)
             ELSE Text("error_parsing_experiments", <<>>)

\* What process_response leaves behind.
Displays(rd, sd, raw, ed, st, tab) ==
    [response_display |-> rd, summary_display |-> sd, raw_display |-> raw,
     experiments_display |-> ed, status_var |-> st, notebook_tab |-> tab]

\* The `except Exception as e` handler of process_response.
process_response_except(d, e) ==
    [d EXCEPT !.status_var = @ \o <<Text("error", e)>>,
              !.response_display = <<Text("error", e)>>]

\* `# Display experiments analysis`: lines 1899-1916, d being the displays
\* before it.
experiments_step(d, response_json, carousel_titles) ==
    LET found == IF Truthy(response_json) THEN experiments_in(response_json)
                 ELSE Return(FALSE)
    IN  IF found.exc THEN process_response_except(d, found.val)
        ELSE IF found.val
        THEN LET shown == [d EXCEPT !.experiments_display =
                                @ \o <<parse_experiments_response(response_json)>>,
                                    !.notebook_tab = "experiments_tab"]
                 experiments_count ==
                     IF response_json.type = "dict"
                     THEN PyLen(DictGet(response_json, "experiments", PyList(<<>>)))
                     ELSE Raise(<<"AttributeError">>)
             IN  IF experiments_count.exc
                 THEN process_response_except(shown, experiments_count.val)
                 ELSE [shown EXCEPT !.status_var = @ \o
                          <<Text("completed_experiments", <<experiments_count.val>>)>>]
        ELSE [d EXCEPT !.experiments_display = @ \o <<Text("no_experiments", <<>>)>>,
                       !.notebook_tab = "carousel_tab",
                       !.status_var = @ \o <<Text("completed_carousels",
                                                  <<Len(carousel_titles)>>)>>]

\* The try block of process_response from `# Extract carousel titles` on,
\* with its except handler: the displays after it, given the displays
\* before it, the parsed body and the records extracted from it.
process_response_display(before, response_json, carousel_titles) ==
    experiments_step(
        Displays(<<IF carousel_titles # <<>> THEN FoundText(carousel_titles)
                   ELSE NoCarouselsText>>,
                 <<Text("summary", <<>>)>>,
                 <<IF Truthy(response_json) THEN Text("pretty_json", <<>>)
                   ELSE Text("response_text", <<>>)>>,
                 <<>>,
                 before.status_var \o <<Text("received", <<>>),
                                        Text("cleared", <<>>)>>,
                 before.notebook_tab),
        response_json, carousel_titles)

\* The same, from the parsed body on.
process_response_json(before, response_json) ==
    process_response_display(before, response_json,
                             IF Truthy(response_json)
                             THEN extract_carousel_titles(response_json).val
                             ELSE <<>>)

\* The try block of process_response with its except handler: the displays
\* after it, given the displays before it.
process_response(before, resp) ==
    process_response_json(before,
                          IF resp.json.exc THEN PyNone ELSE resp.json.val)

----------------------------------------------------------------------------
(* The responses process_response is handed *)

Experiment ==
    PyDict(<<Entry("name", PyStr(<<"x">>)), Entry("value", PyBool(TRUE))>>)

ExperimentsVals ==
    { PyNone, PyInt(3), PyList(<<>>), PyList(<<Experiment>>),
      PyList(<<PyStr(<<"x">>)>>), PyStr(<<"x">>), PyDict(<<>>) }

ExperimentsBodies ==
    { PyDict(<<Entry("experiments", x)>>) : x \in ExperimentsVals }
    \cup { PyDict(<<Entry("experiments", x), Entry("a", GoodX)>>) : x \in ExperimentsVals }
    \cup { PyList(<<PyStr(ExperimentsChars)>>),
           PyList(<<PyStr(ExperimentsChars), GoodX>>),
           PyStr(ExperimentsChars) }

Bodies ==
    RootPrimitives \cup RichNodes \cup ExperimentsBodies
    \cup { PyList(<<GoodX, GoodY>>), PyList(<<BadComponent>>) }

\* response.json() gives a body or raises (a body that is not JSON).
Responses ==
    { [json |-> Return(b)] : b \in Bodies } \cup { [json |-> Raise(<<"ValueError">>)] }

\* What the displays hold from the request before.
StaleText == Text("stale", <<>>)

----------------------------------------------------------------------------
(* The state machine: one response, handed to process_response by the worker *)

InitResponse ==
    /\ ExtractorIdle
    /\ FieldsIdle
    /\ ConfigurationIdle
    /\ SetupIdle
    /\ is_loading = TRUE
    /\ btn_state = "disabled"
    /\ config_token = PyStr(<<"t","0","k">>)
    /\ token_var = PyStr(<<"t","0","k">>)
    /\ workers = <<>>
    /\ auth_errors = 0
    /\ response \in Responses
    /\ response_display \in { <<>>, <<StaleText>> }
    /\ summary_display = response_display
    /\ raw_display = response_display
    /\ experiments_display = response_display
    /\ status_var = <<>>
    /\ notebook_tab = "request_tab"

\* The displays come to hold d.
Shows(d) ==
    /\ response_display' = d.response_display
    /\ summary_display' = d.summary_display
    /\ raw_display' = d.raw_display
    /\ experiments_display' = d.experiments_display
    /\ status_var' = d.status_var
    /\ notebook_tab' = d.notebook_tab

\* self.process_response(response), with its finally block.
ProcessResponse ==
    /\ is_loading
    /\ Shows(process_response(Displays(response_display, summary_display,
                                       raw_display, experiments_display,
                                       status_var, notebook_tab), response))
    /\ is_loading' = FALSE
    /\ btn_state' = "normal"
    /\ UNCHANGED <<response, config_token, token_var, workers, auth_errors,
                   extractor_vars, fields_vars, configuration_vars, setup_vars>>

NextResponse == ProcessResponse

SpecResponse == InitResponse /\ [][NextResponse]_vars

----------------------------------------------------------------------------
(* C21: zero records, one message *)

Processed == ~is_loading /\ response # PyNone

\* The parsed body, None for a body that does not parse.
ParsedBody == IF response.json.exc THEN PyNone ELSE response.json.val

\* Line 1854 by itself: the records of the parsed body.
RecordsOfBody ==
    IF Truthy(ParsedBody) THEN extract_carousel_titles(ParsedBody).val ELSE <<>>

ShowsError(d) == \E i \in 1..Len(d) : d[i].kind = "error"

\* C21: for every response whose parsed body yields zero carousel records,
\* the carousel display shows the zero-result message and nothing else, and
\* neither the display nor the status bar is given an error message.
C21_ZeroRecordsOneMessage ==
    (Processed /\ RecordsOfBody = <<>>) =>
        /\ response_display = <<NoCarouselsText>>
        /\ ~ShowsError(status_var)

----------------------------------------------------------------------------
(* Part 5: config.env, read by load_config and written by save_to_file.    *)
(* A file is the sequence of its characters; self.config is a dict whose   *)
(* keys are the characters of the key.                                     *)

AuthorizationToken == <<"A","U","T","H","O","R","I","Z","A","T","I","O","N","_","T","O","K","E","N">>

Cookie == <<"C","O","O","K","I","E">>

Quotes == { "'", "\"" }

RECURSIVE LStripQuotes(_)
LStripQuotes(s) ==
    IF s # <<>> /\ Head(s) \in Quotes THEN LStripQuotes(Tail(s)) ELSE s

RECURSIVE RStripQuotes(_)
RStripQuotes(s) ==
    IF s # <<>> /\ s[Len(s)] \in Quotes
    THEN RStripQuotes(SubSeq(s, 1, Len(s) - 1))
    ELSE s

\* value.strip("'\"") that takes off one pair of equal quotes and no more.
StripQuotes_one_pair(s) ==
    IF Len(s) >= 2 /\ Head(s) \in Quotes /\ s[Len(s)] = Head(s)
    THEN SubSeq(s, 2, Len(s) - 1)
    ELSE s

\* value.strip("'\"")
StripQuotes(s) == RStripQuotes(LStripQuotes(s))

\* line.split('=', 1) for a line that has an '='
SplitAtEquals(line) ==
    LET p == CHOOSE i \in 1..Len(line) :
                 line[i] = "=" /\ \A j \in 1..(i - 1) : line[j] # "="
    IN  [key |-> SubSeq(line, 1, p - 1), value |-> SubSeq(line, p + 1, Len(line))]

\* The body of `for line in f` for one line of the file.
load_config_line(cfg, raw) ==
    LET line == Strip(raw)
    IN  IF line # <<>> /\ ~StartsWith(line, <<"#">>) /\ Contains(line, <<"=">>)
        THEN LET parts == SplitAtEquals(line)
             IN  DictSet(cfg, parts.key, PyStr(StripQuotes(parts.value)))
        ELSE cfg

RECURSIVE load_config_lines(_, _)
load_config_lines(cfg, lines) ==
    IF lines = <<>> THEN cfg
    ELSE load_config_lines(load_config_line(cfg, Head(lines)), Tail(lines))

\* load_config on the mapping cfg (self.config as it stands) and the file.
load_config(cfg, file) ==
    LET read == IF file.type = "NoneType" THEN cfg
                ELSE load_config_lines(cfg, Split(file.v))
        token == DictGet(read, AuthorizationToken, PyNone)
    IN  IF ~Truthy(token) \/ token.v = <<"n","u","l","l">>
        THEN DictSet(read, AuthorizationToken, PyNone)
        ELSE read

\* What create_config_field puts in the entry of key.
FieldValue(cfg, key) ==
    IF key = AuthorizationToken THEN initial_value(DictGet(cfg, key, PyStr(<<>>)))
    ELSE PyStr(Formatted(DictGet(cfg, key, PyStr(<<>>))))

\* The keys that have an entry, in the order the entries are made.
FieldKeys == <<AuthorizationToken, Cookie>>

\* self.config_vars after create_widgets.
create_config_fields(cfg) ==
    PyDict([i \in 1..Len(FieldKeys) |-> Entry(FieldKeys[i], FieldValue(cfg, FieldKeys[i]))])

\* The loop of save_configuration over the entries from the i-th on.
RECURSIVE save_configuration_from(_, _, _)
save_configuration_from(cfg, entries, i) ==
    IF i > Len(entries.v) THEN cfg
    ELSE LET value == Strip(entries.v[i].value.v)
             stored == IF Lower(value) = <<"n","u","l","l">> THEN PyNone
                       ELSE PyStr(value)
         IN  save_configuration_from(DictSet(cfg, entries.v[i].key, stored),
                                     entries, i + 1)

\* value.replace("'", "\\'")
RECURSIVE EscapeQuotes(_)
EscapeQuotes(s) ==
    IF s = <<>> THEN <<>>
    ELSE (IF Head(s) = "'" THEN <<"\\", "'">> ELSE <<Head(s)>>) \o EscapeQuotes(Tail(s))

\* The line save_to_file writes for key, without its newline.
key_line(key, value) ==
    IF value.type = "NoneType" THEN key \o <<"=","n","u","l","l">>
    ELSE IF \E i \in 1..Len(value.v) : value.v[i] \in {" ", "\"", "'"}
    THEN key \o <<"=", "'">> \o EscapeQuotes(value.v) \o <<"'">>
    ELSE key \o <<"=">> \o value.v

\* The line save_to_file writes for key with a value in quotes left as it is.
key_line_unescaped(key, value) ==
    IF value.type = "NoneType" THEN key \o <<"=","n","u","l","l">>
    ELSE IF \E i \in 1..Len(value.v) : value.v[i] \in {" ", "\"", "'"}
    THEN key \o <<"=", "'">> \o value.v \o <<"'">>
    ELSE key \o <<"=">> \o value.v

\* The categories of save_to_file, each with those of its keys that have an
\* entry here.
categories ==
    << [category |-> <<"A","P","I"," ","S","e","t","t","i","n","g","s">>, keys |-> <<AuthorizationToken>>],
       [category |-> <<"S","e","s","s","i","o","n"," ","&"," ","H","e","a","d","e","r","s">>, keys |-> <<Cookie>>] >>

\* The lines written for the keys of one category that are in cfg.
RECURSIVE key_lines(_, _)
key_lines(cfg, keys) ==
    IF keys = <<>> THEN <<>>
    ELSE (IF \E i \in 1..Len(cfg.v) : cfg.v[i].key = Head(keys)
          THEN <<key_line(Head(keys), DictGet(cfg, Head(keys), PyNone))>>
          ELSE <<>>) \o key_lines(cfg, Tail(keys))

RECURSIVE category_lines(_, _)
category_lines(cfg, cats) ==
    IF cats = <<>> THEN <<>>
    ELSE << <<"#"," ","-","-","-","-","-","-","-","-","-","-","-","-","-","-","-","-","-","-","-","-","-","-">>, <<"#"," ">> \o Head(cats).category, <<"#"," ","-","-","-","-","-","-","-","-","-","-","-","-","-","-","-","-","-","-","-","-","-","-">>, <<>> >>
         \o key_lines(cfg, Head(cats).keys) \o << <<>> >>
         \o category_lines(cfg, Tail(cats))

\* The text save_to_file writes: the header comments, a blank line, then
\* the categories; every line ends in a newline.
written_file(cfg) ==
    PyStr(Join(<< <<"#"," ","=","=","=","=">>, <<"#"," ","G","e","n","e","r","a","t","e","d"," ","o","n",":"," ","T">>, <<>> >> \o category_lines(cfg, categories))
          \o <<"\n">>)

\* reload_config and reset_configuration: load_config(), then for every
\* entry var.set(self.config.get(key, '')).
reload_entries(cfg, entries) ==
    PyDict([i \in 1..Len(entries.v) |->
               Entry(entries.v[i].key,
                     PyStr(Formatted(DictGet(cfg, entries.v[i].key, PyStr(<<>>)))))])

----------------------------------------------------------------------------
(* The files and the values typed *)

\* Most lines a generated config.env has.
MaxFileLines == 2

\* Most reloads, and most changes of an entry, in a behaviour.
MaxLoads == 1

MaxEdits == 2

FileLines ==
    { <<>>,
      <<" ","#"," ","K","=","c">>,
      <<"K">>,
      <<"K","=","v","\t">>,
      <<"K","=","a","=","b">>,
      <<"K","=","'","v"," ","w","'">>,
      <<"C","O","O","K","I","E","=","\"","'","x","'">>,
      <<"K"," ","="," ","v">>,
      <<"A","U","T","H","O","R","I","Z","A","T","I","O","N","_","T","O","K","E","N","=","t","0","k">>,
      <<"A","U","T","H","O","R","I","Z","A","T","I","O","N","_","T","O","K","E","N","=","n","u","l","l">>,
      <<"A","U","T","H","O","R","I","Z","A","T","I","O","N","_","T","O","K","E","N","=","'","n","u","l","l","'">>,
      <<"A","U","T","H","O","R","I","Z","A","T","I","O","N","_","T","O","K","E","N","=">> }

Files ==
    { PyNone } \cup
    { PyStr(Join(ls)) : ls \in UNION { [1..n -> FileLines] : n \in 1..MaxFileLines } }

\* What the user leaves in an entry.
TypedValues(key) ==
    IF key = AuthorizationToken
    THEN { <<>>, <<"N","u","l","l">>, <<"t","0","k">> }
    ELSE { <<>>, <<"v">>, <<"a"," ","b">>, <<"a","=","b">>,
           <<"i","t","'","s">>, <<"\"","q","\"">>, <<"n","u","l","l">> }

----------------------------------------------------------------------------
(* The state machine: the configuration editor *)

InitConfig ==
    /\ ExtractorIdle
    /\ RequestIdle
    /\ FieldsIdle
    /\ ResponseIdle
    /\ SetupIdle
    /\ config_file \in Files
    /\ config = load_config(PyDict(<<>>), config_file)
    /\ config_vars = create_config_fields(config)
    /\ loads = 0
    /\ edits = 0

\* The user changes what an entry holds.
EditEntry ==
    /\ edits < MaxEdits
    /\ edits' = edits + 1
    /\ \E i \in 1..Len(config_vars.v) :
          \E typed \in TypedValues(config_vars.v[i].key) :
             /\ typed # config_vars.v[i].value.v
             /\ config_vars' = [config_vars EXCEPT !.v[i].value = PyStr(typed)]
    /\ UNCHANGED <<config, config_file, loads,
                   extractor_vars, request_vars, fields_vars, response_vars, setup_vars>>

\* save_to_file: save_configuration(), the question, and on Yes the file.
SaveToFile ==
    /\ config' = save_configuration_from(config, config_vars, 1)
    /\ \E result \in BOOLEAN :
          config_file' = IF result THEN written_file(config') ELSE config_file
    /\ UNCHANGED <<config_vars, loads, edits,
                   extractor_vars, request_vars, fields_vars, response_vars, setup_vars>>

\* reload_config, and reset_configuration, which differs in its messages.
ReloadConfigFile ==
    /\ loads < MaxLoads
    /\ config' = load_config(config, config_file)
    /\ config_vars' = reload_entries(config', config_vars)
    /\ loads' = loads + 1
    /\ UNCHANGED <<config_file, edits,
                   extractor_vars, request_vars, fields_vars, response_vars, setup_vars>>

NextConfig == EditEntry \/ SaveToFile \/ ReloadConfigFile

SpecConfig == InitConfig /\ [][NextConfig]_vars

----------------------------------------------------------------------------
(* The claims on config.env *)

\* The trimmed non-blank lines of the file; none when there is no file.
LinesOfFile(file) ==
    IF file.type = "NoneType" THEN <<>> ELSE TrimmedLines(file.v)

\* The place of the first '=' of line, 0 when it has none.
FirstEquals(line) ==
    IF \E i \in 1..Len(line) : line[i] = "="
    THEN CHOOSE i \in 1..Len(line) :
             line[i] = "=" /\ \A j \in 1..(i - 1) : line[j] # "="
    ELSE 0

\* A line that sets a key: not a comment, and with an '='.
IsSetting(line) == line[1] # "#" /\ FirstEquals(line) > 0

KeySet(line) == SubSeq(line, 1, FirstEquals(line) - 1)

TextAfterEquals(line) == SubSeq(line, FirstEquals(line) + 1, Len(line))

\* s without the single and double quotes around it: from its first to its
\* last character that is no quote.
Unquoted(s) ==
    LET solid == { i \in 1..Len(s) : s[i] \notin {"'", "\""} }
    IN  IF solid = {} THEN <<>>
        ELSE SubSeq(s, CHOOSE i \in solid : \A j \in solid : i <= j,
                       CHOOSE i \in solid : \A j \in solid : i >= j)

KeysOf(d) == { d.v[i].key : i \in 1..Len(d.v) }

\* What reading the lines leaves under key k of a mapping that held `old`.
ReadFrom(lines, old, k) ==
    LET setters == { i \in 1..Len(lines) : IsSetting(lines[i]) /\ KeySet(lines[i]) = k }
    IN  IF setters = {} THEN Field(old, k)
        ELSE PyStr(Unquoted(TextAfterEquals(
                 lines[CHOOSE i \in setters : \A j \in setters : j <= i])))

\* A token that is missing, empty or 'null'.
NoToken(x) == x.type \in {"absent", "NoneType"} \/ x.v = <<>> \/ x.v = <<"n","u","l","l">>

\* C22: load_config reads the file line by line as KEY=VALUE: blank lines,
\* lines starting with '#' and lines without '=' change nothing; every other
\* line sets config[KEY] to the text after its first '=' without the quotes
\* around it, the last line of a key deciding; afterwards an
\* AUTHORIZATION_TOKEN that is missing, empty or 'null' is None.
C22_LoadConfig ==
    [][loads' = loads + 1 =>
         LET lines == LinesOfFile(config_file)
             keys == KeysOf(config) \cup { AuthorizationToken }
                     \cup { KeySet(lines[i]) : i \in { j \in 1..Len(lines) : IsSetting(lines[j]) } }
         IN  /\ KeysOf(config') = keys
             /\ \A k \in keys :
                   LET read == ReadFrom(lines, config, k)
                   IN  Field(config', k) =
                           IF k = AuthorizationToken /\ NoToken(read) THEN PyNone
                           ELSE read]_vars

\* A reload of a file that sets K with an '=' in its value, and holds a
\* quoted 'null' for the token.
C22_Witness ==
    /\ loads = 1
    /\ config_file = PyStr(Join(<< <<"K","=","a","=","b">>, <<"A","U","T","H","O","R","I","Z","A","T","I","O","N","_","T","O","K","E","N","=","'","n","u","l","l","'">> >>))
    /\ Field(config, <<"K">>) = PyStr(<<"a","=","b">>)
    /\ Field(config, AuthorizationToken) = PyNone

\* C30: configuration round-trips through the file: when load_config reads
\* back the file that save_to_file wrote for the configuration in memory,
\* every key holds the value it had, None included.
C30_RoundTrip ==
    [][(loads' = loads + 1 /\ config_file = written_file(config)) =>
          \A k \in KeysOf(config) : Field(config', k) = Field(config, k)]_vars

----------------------------------------------------------------------------
(* Part 6: AndroidEmulatorSetup (src/setup_android_emulator.py).           *)
(* run_setup is followed method by method; what the machine answers (which *)
(* binaries are found, how each command ends, what it prints) is chosen at *)
(* each call. An outcome of a method is "True", "False" or "raised".       *)

CharlesProxy_AVD == <<"C","h","a","r","l","e","s","P","r","o","x","y","_","A","V","D">>

charles == <<"c","h","a","r","l","e","s">>

device == <<"d","e","v","i","c","e">>

\* How a subprocess.run(..., timeout=n) ends.
Ends == { "exit 0", "exit 1", "TimeoutExpired", "OSError" }

\* wait_for_device(timeout=120), in seconds
Timeout == 120

\* subprocess.run(..., timeout=10) in wait_for_device
CommandTimeout == 10

\* time.sleep(5)
Sleep == 5

\* result.stdout of 'adb devices'
DevicesHeader == <<"L","i","s","t"," ","o","f"," ","d","e","v","i","c","e","s"," ","a","t","t","a","c","h","e","d","\n">>

DevicesStdouts ==
    { DevicesHeader \o <<"\n">>,
      DevicesHeader \o <<"e","m","u","l","a","t","o","r","-","5","5","5","4","\t","d","e","v","i","c","e","\n","\n">>,
      DevicesHeader \o <<"e","m","u","l","a","t","o","r","-","5","5","5","4","\t","o","f","f","l","i","n","e","\n","\n">>,
      DevicesHeader \o <<"0","a","3","8","\t","u","n","a","u","t","h","o","r","i","z","e","d","\n","\n">> }

\* The seconds a command took: the whole timeout when it was cut off.
Took(end) == IF end = "TimeoutExpired" THEN CommandTimeout ELSE 0

\* wait_for_device up to the loop: find_adb, start_time.
wait_for_device_enter(adb) ==
    [NoWait EXCEPT !.adb = adb,
                   !.outcome = IF adb THEN "none" ELSE "False"]

\* 'device' in result.stdout
device_listed(stdout) == Contains(stdout, device)

\* One turn of the loop of wait_for_device: 'adb wait-for-device' ended as
\* waited, 'adb devices' (when it is run) as listed, printing stdout.
wait_for_device_poll(w, waited, listed, stdout) ==
    IF waited = "OSError"
    THEN [w EXCEPT !.waited = waited, !.listed = "none",
                   !.stdout = <<>>, !.outcome = "raised"]
    ELSE IF waited = "exit 0"
    THEN [w EXCEPT !.waited = waited, !.listed = "none",
                   !.stdout = <<>>, !.outcome = "True"]
    ELSE IF listed = "OSError"
    THEN [w EXCEPT !.waited = waited, !.listed = listed,
                   !.stdout = <<>>, !.elapsed = @ + Took(waited),
                   !.outcome = "raised"]
    ELSE IF listed = "exit 0" /\ device_listed(stdout)
    THEN [w EXCEPT !.waited = waited, !.listed = listed,
                   !.stdout = stdout, !.elapsed = @ + Took(waited),
                   !.outcome = "True"]
    ELSE [w EXCEPT !.waited = waited, !.listed = listed,
                   !.stdout = IF listed = "exit 0" THEN stdout ELSE <<>>,
                   !.elapsed = @ + Took(waited) + Took(listed) + Sleep]

\* The loop's condition fails: time.time() - start_time >= timeout.
wait_for_device_timeout(w) == [w EXCEPT !.outcome = "False"]

\* configure_proxy that is content with one of the two iptables rules.
configure_proxy_either(adb, settings, http, https) ==
    IF ~adb
    THEN [adb |-> adb, ran |-> <<>>, outcome |-> "False"]
    ELSE IF settings = "exit 0"
    THEN [adb |-> adb, ran |-> <<[cmd |-> "settings", end |-> settings]>>,
          outcome |-> "True"]
    ELSE IF http \in {"TimeoutExpired", "OSError"}
    THEN [adb |-> adb,
          ran |-> <<[cmd |-> "settings", end |-> settings],
                    [cmd |-> "iptables 80", end |-> http]>>,
          outcome |-> "False"]
    ELSE [adb |-> adb,
          ran |-> <<[cmd |-> "settings", end |-> settings],
                    [cmd |-> "iptables 80", end |-> http],
                    [cmd |-> "iptables 443", end |-> https]>>,
          outcome |-> IF http = "exit 0" \/ https = "exit 0"
                      THEN "True" ELSE "False"]

\* configure_proxy: the settings command ended as settings, the two iptables
\* commands (when they are run) as http and https.
configure_proxy(adb, settings, http, https) ==
    IF ~adb
    THEN [adb |-> adb, ran |-> <<>>, outcome |-> "False"]
    ELSE IF settings = "exit 0"
    THEN [adb |-> adb, ran |-> <<[cmd |-> "settings", end |-> settings]>>,
          outcome |-> "True"]
    ELSE IF http \in {"TimeoutExpired", "OSError"}
    THEN [adb |-> adb,
          ran |-> <<[cmd |-> "settings", end |-> settings],
                    [cmd |-> "iptables 80", end |-> http]>>,
          outcome |-> "False"]
    ELSE [adb |-> adb,
          ran |-> <<[cmd |-> "settings", end |-> settings],
                    [cmd |-> "iptables 80", end |-> http],
                    [cmd |-> "iptables 443", end |-> https]>>,
          outcome |-> IF http = "exit 0" /\ https = "exit 0"
                      THEN "True" ELSE "False"]

\* check_android_sdk: what find_adb, find_emulator and find_avdmanager found.
check_android_sdk(adb, emulator, avdmanager) ==
    IF ~adb THEN "False"
    ELSE IF ~emulator THEN "False"
    ELSE "True"

\* list_available_avds: the installed AVDs when one of the two listings
\* ('emulator -list-avds', 'avdmanager list avd') worked, else [].
list_available_avds(installed, listing) == IF listing THEN installed ELSE <<>>

\* create_avd: existing_avds is what it listed, create how
\* 'avdmanager create avd' ended.
create_avd(name, existing_avds, avdmanager, create) ==
    IF \E i \in 1..Len(existing_avds) : existing_avds[i] = name
    THEN "True"
    ELSE IF avdmanager
    THEN (IF create = "exit 0" THEN "True" ELSE "False")
    ELSE "False"

\* The AVD run_setup falls back on, that takes the first of the list.
fallback_avd_first(existing_avds) == existing_avds[1]

\* The AVD run_setup falls back on: the first whose name holds 'charles',
\* whatever the case, else the first.
fallback_avd(existing_avds) ==
    IF \E i \in 1..Len(existing_avds) : Contains(Lower(existing_avds[i]), charles)
    THEN existing_avds[CHOOSE i \in 1..Len(existing_avds) :
             /\ Contains(Lower(existing_avds[i]), charles)
             /\ \A j \in 1..(i - 1) : ~Contains(Lower(existing_avds[j]), charles)]
    ELSE existing_avds[1]

\* start_emulator: a Popen object is true.
start_emulator(emulator, popen) ==
    IF ~emulator THEN "False"
    ELSE IF popen = "started" THEN "True"
    ELSE "False"

\* test_proxy_connection: curl ended as curl.
test_proxy_connection(adb, curl) ==
    IF ~adb THEN "False"
    ELSE IF curl = "exit 0" THEN "True"
    ELSE "False"

\* run_setup that gives up when configure_proxy failed.
run_setup_after_proxy_strict(outcome) ==
    IF outcome = "True" THEN "test_proxy_connection" ELSE "return False"

\* What run_setup does after configure_proxy returned outcome.
run_setup_after_proxy(outcome) == "test_proxy_connection"

----------------------------------------------------------------------------
(* The machines run_setup is run on *)

MaxAvds == 2

AvdNames == { CharlesProxy_AVD, <<"P","i","x","e","l","_","4">>, <<"M","y","_","C","H","A","R","L","E","S">> }

AvdLists ==
    { l \in UNION { [1..n -> AvdNames] : n \in 0..MaxAvds } :
        \A i, j \in 1..Len(l) : i # j => l[i] # l[j] }

----------------------------------------------------------------------------
(* The state machine: one run of run_setup *)

\* A call run_setup made: the outcome of the method, self.avd_name as the
\* method left it, and the binaries the method looked for and found.
Called(call, outcome, name, found) ==
    [call |-> call, outcome |-> outcome, avd |-> name, found |-> found]

InitSetup ==
    /\ ExtractorIdle
    /\ RequestIdle
    /\ FieldsIdle
    /\ ResponseIdle
    /\ ConfigurationIdle
    /\ setup_pc = "check_android_sdk"
    /\ avd_name = CharlesProxy_AVD
    /\ avds \in AvdLists
    /\ setup_log = <<>>
    /\ wait = NoWait
    /\ proxy = NoProxy
    /\ setup_result = <<>>

OtherUnchanged ==
    UNCHANGED <<extractor_vars, request_vars, fields_vars, response_vars,
                configuration_vars>>

CheckAndroidSdk ==
    /\ setup_pc = "check_android_sdk"
    /\ \E adb \in BOOLEAN, emulator \in BOOLEAN, avdmanager \in BOOLEAN :
          LET outcome == check_android_sdk(adb, emulator, avdmanager)
          IN /\ setup_log' = Append(setup_log, Called("check_android_sdk", outcome, avd_name,
                                       [adb |-> adb, emulator |-> emulator,
                                        avdmanager |-> avdmanager]))
             /\ IF outcome = "True"
                THEN setup_pc' = "create_avd" /\ setup_result' = setup_result
                ELSE setup_pc' = "done" /\ setup_result' = <<"False">>
    /\ UNCHANGED <<avd_name, avds, wait, proxy>>
    /\ OtherUnchanged

\* Lines 398 to 419: the listing, create_avd, and the AVD fallen back on.
CreateAvd ==
    /\ setup_pc = "create_avd"
    /\ \E listing \in BOOLEAN, avdmanager \in BOOLEAN, create \in Ends,
          relisting \in BOOLEAN :
          LET existing == list_available_avds(avds, listing)
              outcome == create_avd(avd_name, existing, avdmanager, create)
              existing_avds == list_available_avds(avds, relisting)
              logged == Append(setup_log,
                               Called("create_avd", outcome, avd_name,
                                      [avdmanager |-> avdmanager]))
          IN IF outcome = "True"
             THEN /\ setup_log' = logged
                  /\ setup_pc' = "start_emulator"
                  /\ UNCHANGED <<avd_name, setup_result>>
             ELSE IF existing_avds # <<>>
             THEN /\ avd_name' = fallback_avd(existing_avds)
                  /\ setup_log' =
                        Append(logged,
                               Called("list_available_avds", "True",
                                      fallback_avd(existing_avds), <<>>))
                  /\ setup_pc' = "start_emulator"
                  /\ UNCHANGED setup_result
             ELSE /\ setup_log' =
                        Append(logged,
                               Called("list_available_avds", "False",
                                      avd_name, <<>>))
                  /\ setup_pc' = "done"
                  /\ setup_result' = <<"False">>
                  /\ UNCHANGED avd_name
    /\ UNCHANGED <<avds, wait, proxy>>
    /\ OtherUnchanged

StartEmulator ==
    /\ setup_pc = "start_emulator"
    /\ \E emulator \in BOOLEAN, popen \in {"started", "OSError"} :
          LET outcome == start_emulator(emulator, popen)
          IN /\ setup_log' = Append(setup_log, Called("start_emulator", outcome, avd_name,
                                       [emulator |-> emulator]))
             /\ IF outcome = "True"
                THEN setup_pc' = "wait_for_device" /\ setup_result' = setup_result
                ELSE setup_pc' = "done" /\ setup_result' = <<"False">>
    /\ UNCHANGED <<avd_name, avds, wait, proxy>>
    /\ OtherUnchanged

\* What run_setup does once wait_for_device has ended as w.outcome.
AfterWait(w) ==
    /\ wait' = w
    /\ IF w.outcome = "none"
       THEN /\ setup_pc' = "polling"
            /\ UNCHANGED <<setup_log, setup_result>>
       ELSE /\ setup_log' = Append(setup_log, Called("wait_for_device", w.outcome, avd_name,
                                       [adb |-> w.adb]))
            /\ IF w.outcome = "True"
               THEN setup_pc' = "configure_proxy" /\ setup_result' = setup_result
               ELSE setup_pc' = "done" /\ setup_result' = <<w.outcome>>
    /\ UNCHANGED <<avd_name, avds, proxy>>
    /\ OtherUnchanged

WaitForDeviceEnter ==
    /\ setup_pc = "wait_for_device"
    /\ \E adb \in BOOLEAN : AfterWait(wait_for_device_enter(adb))

WaitForDevicePoll ==
    /\ setup_pc = "polling"
    /\ wait.elapsed < Timeout
    /\ \E waited \in Ends, listed \in Ends, stdout \in DevicesStdouts :
          AfterWait(wait_for_device_poll(wait, waited, listed, stdout))

WaitForDeviceTimeout ==
    /\ setup_pc = "polling"
    /\ ~(wait.elapsed < Timeout)
    /\ AfterWait(wait_for_device_timeout(wait))

\* The locals of wait_for_device are gone when configure_proxy is called.
ConfigureProxy ==
    /\ setup_pc = "configure_proxy"
    /\ \E adb \in BOOLEAN, settings \in Ends, http \in Ends, https \in Ends :
          LET p == configure_proxy(adb, settings, http, https)
          IN /\ proxy' = p
             /\ setup_log' = Append(setup_log, Called("configure_proxy", p.outcome, avd_name,
                                       [adb |-> adb]))
             /\ IF run_setup_after_proxy(p.outcome) = "test_proxy_connection"
                THEN setup_pc' = "test_proxy_connection" /\ setup_result' = setup_result
                ELSE setup_pc' = "done" /\ setup_result' = <<"False">>
    /\ wait' = NoWait
    /\ UNCHANGED <<avd_name, avds>>
    /\ OtherUnchanged

TestProxyConnection ==
    /\ setup_pc = "test_proxy_connection"
    /\ \E adb \in BOOLEAN, curl \in Ends :
          setup_log' = Append(setup_log,
                              Called("test_proxy_connection",
                                     test_proxy_connection(adb, curl),
                                     avd_name, [adb |-> adb]))
    /\ setup_pc' = "done"
    /\ setup_result' = <<"True">>
    /\ UNCHANGED <<avd_name, avds, wait, proxy>>
    /\ OtherUnchanged

NextSetup ==
    \/ CheckAndroidSdk
    \/ CreateAvd
    \/ StartEmulator
    \/ WaitForDeviceEnter
    \/ WaitForDevicePoll
    \/ WaitForDeviceTimeout
    \/ ConfigureProxy
    \/ TestProxyConnection

SpecSetup == InitSetup /\ [][NextSetup]_vars

----------------------------------------------------------------------------
(* The claims on AndroidEmulatorSetup *)

\* 'adb devices' prints one line for each device, its serial number, a tab
\* and its state; the state of an attached device that is ready is 'device'.
ListsAttachedDevice(stdout) ==
    \E i \in 1..Len(Split(stdout)) :
        /\ EndsWith(Split(stdout)[i], <<"\t">> \o device)
        /\ Len(Split(stdout)[i]) > Len(device) + 1

(* C28: wait_for_device returns True only if 'adb wait-for-device' exited  *)
(* 0 or 'adb devices' exited 0 and lists at least one attached device; it  *)
(* returns False only when adb is not found or the timeout has elapsed, so *)
(* that while no device is attached it keeps polling.                      *)
C28_WaitsForDevice ==
    /\ wait.outcome = "True" =>
          \/ wait.waited = "exit 0"
          \/ wait.listed = "exit 0" /\ ListsAttachedDevice(wait.stdout)
    /\ wait.outcome = "False" => (~wait.adb \/ wait.elapsed >= Timeout)
    /\ (setup_pc = "polling" /\ wait.elapsed > 0) =>
          ~(wait.listed = "exit 0" /\ ListsAttachedDevice(wait.stdout))

\* The commands configure_proxy ran that are cmd and ended as end.
Ran(cmd, end) ==
    { i \in 1..Len(proxy.ran) : proxy.ran[i].cmd = cmd /\ proxy.ran[i].end = end }

RanAt(cmd) == { i \in 1..Len(proxy.ran) : proxy.ran[i].cmd = cmd }

(* C27: configure_proxy runs the settings command first and an iptables    *)
(* command only when the settings command did not exit 0; it returns True  *)
(* iff the settings command exited 0 or both iptables commands (port 80    *)
(* and port 443) exited 0, returns False otherwise, and never raises.      *)
C27_ConfigureProxy ==
    proxy.outcome # "none" =>
        /\ proxy.outcome \in {"True", "False"}
        /\ proxy.ran # <<>> => proxy.ran[1].cmd = "settings"
        /\ \A i \in 2..Len(proxy.ran) :
              /\ proxy.ran[i].cmd \in {"iptables 80", "iptables 443"}
              /\ proxy.ran[1].end # "exit 0"
        /\ proxy.outcome = "True" <=>
              \/ Ran("settings", "exit 0") # {}
              \/ Ran("iptables 80", "exit 0") # {} /\ Ran("iptables 443", "exit 0") # {}
        /\ (proxy.adb /\ Ran("settings", "exit 0") = {}) => RanAt("iptables 80") # {}
        /\ ~proxy.adb => proxy.ran = <<>>

\* The settings command failed and the two iptables commands succeeded.
C27_Witness ==
    /\ proxy.outcome = "True"
    /\ Ran("settings", "TimeoutExpired") = {1}
    /\ Ran("iptables 80", "exit 0") = {2}
    /\ Ran("iptables 443", "exit 0") = {3}

\* The calls of run_setup that are call, by their place in the log.
CallsOf(call) == { i \in 1..Len(setup_log) : setup_log[i].call = call }

Outcomes(call) == { setup_log[i].outcome : i \in CallsOf(call) }

\* The four gates of run_setup, on what the machine answered.
SdkMissing ==
    \E i \in CallsOf("check_android_sdk") :
        ~setup_log[i].found.adb \/ ~setup_log[i].found.emulator

NoAvd ==
    /\ "False" \in Outcomes("create_avd")
    /\ "False" \in Outcomes("list_available_avds")

NotStarted == "False" \in Outcomes("start_emulator")

NotReady == "False" \in Outcomes("wait_for_device")

Order ==
    <<"check_android_sdk", "create_avd", "list_available_avds",
      "start_emulator", "wait_for_device", "configure_proxy",
      "test_proxy_connection">>

Place(call) == CHOOSE k \in 1..Len(Order) : Order[k] = call

\* The name holds 'charles', in whatever case.
HoldsCharles(name) == Mentions(name, charles)

(* C26: run_setup makes its calls in one order, each at most once; the     *)
(* emulator is started only after check_android_sdk returned True and an   *)
(* AVD name was resolved: self.avd_name when create_avd returned True,     *)
(* else an installed AVD, one whose name holds 'charles' when there is     *)
(* one; configure_proxy and test_proxy_connection run only after           *)
(* wait_for_device returned True; and once run_setup has returned,         *)
(* test_proxy_connection has run if configure_proxy has, whatever          *)
(* configure_proxy returned.                                               *)
C26_OrderOfSteps ==
    /\ \A i, j \in 1..Len(setup_log) :
          i < j => Place(setup_log[i].call) < Place(setup_log[j].call)
    /\ \A i \in CallsOf("start_emulator") :
          /\ \E j \in CallsOf("check_android_sdk") :
                j < i /\ setup_log[j].outcome = "True"
          /\ \/ /\ \E j \in CallsOf("create_avd") :
                      j < i /\ setup_log[j].outcome = "True"
                /\ setup_log[i].avd = CharlesProxy_AVD
             \/ /\ \E j \in CallsOf("list_available_avds") :
                      j < i /\ setup_log[j].outcome = "True"
                /\ \E k \in 1..Len(avds) : avds[k] = setup_log[i].avd
                /\ (\E k \in 1..Len(avds) : HoldsCharles(avds[k]))
                      => HoldsCharles(setup_log[i].avd)
    /\ \A i \in CallsOf("configure_proxy") \cup CallsOf("test_proxy_connection") :
          \E j \in CallsOf("wait_for_device") :
              j < i /\ setup_log[j].outcome = "True"
    /\ (setup_pc = "done" /\ CallsOf("configure_proxy") # {}) =>
          CallsOf("test_proxy_connection") # {}

\* The fallback passes over Pixel_4 for My_CHARLES, configure_proxy fails
\* and the test runs.
C26_Witness ==
    /\ setup_pc = "done"
    /\ avds = <<<<"P","i","x","e","l","_","4">>, <<"M","y","_","C","H","A","R","L","E","S">>>>
    /\ avd_name = <<"M","y","_","C","H","A","R","L","E","S">>
    /\ Outcomes("create_avd") = {"False"}
    /\ Outcomes("start_emulator") = {"True"}
    /\ Outcomes("configure_proxy") = {"False"}
    /\ CallsOf("test_proxy_connection") # {}

====
